---- MODULE Spec2Model ----
(***************************************************************************)
(* VulCan: the event stream processor and report synthesizer               *)
(* (vulcan/agent_core/agent_handlers.py, class ReasoningHandler).          *)
(*                                                                         *)
(* Python values are tagged records: a str is a sequence of symbols (a     *)
(* symbol is a whitespace character or an opaque word), a list a sequence  *)
(* of values, a dict a function from key names to values.                  *)
(***************************************************************************)
EXTENDS Integers, Sequences, FiniteSets, TLC

\* ------------------------------------------------------------------ bounds
MaxLimit == 2
MaxOutcomes == 2
MaxBuffer == 2
MaxRecords == 2
MaxStream == 4
MaxRefinements == 3

\* ------------------------------------------------------- python values
PyStr(s) == [t |-> "str", s |-> s]
PyList(l) == [t |-> "list", l |-> l]
PyDict(d) == [t |-> "dict", d |-> d]
PyNone == [t |-> "none"]
Word(w) == PyStr(<<w>>)
EmptyStr == PyStr(<<>>)
EmptyDict == PyDict(<<>>)

IsDict(v) == v.t = "dict"
IsStr(v) == v.t = "str"
IsList(v) == v.t = "list"

\* bool(v)
Truthy(v) ==
    CASE v.t = "str" -> v.s # <<>>
      [] v.t = "list" -> v.l # <<>>
      [] v.t = "dict" -> DOMAIN v.d # {}
      [] v.t = "int" -> v.n # 0
      [] OTHER -> FALSE

\* k in v, for a dict v
Has(v, k) == k \in DOMAIN v.d

\* v.get(k, default), for a dict v
Get(v, k, default) == IF k \in DOMAIN v.d THEN v.d[k] ELSE default

IsSpace(c) == c \in {" ", "\n", "\r"}

RECURSIVE LStrip(_)
LStrip(s) == IF s # <<>> /\ IsSpace(Head(s)) THEN LStrip(Tail(s)) ELSE s

RECURSIVE RStrip(_)
RStrip(s) ==
    IF s # <<>> /\ IsSpace(s[Len(s)]) THEN RStrip(SubSeq(s, 1, Len(s) - 1)) ELSE s

\* str.strip()
Strip(s) == RStrip(LStrip(s))

\* " ".join(l), for a list of str
RECURSIVE Join(_)
Join(l) ==
    IF l = <<>> THEN <<>>
    ELSE IF Len(l) = 1 THEN l[1].s
    ELSE l[1].s \o <<" ">> \o Join(Tail(l))

\* bool(x.strip() if isinstance(x, str) else x)
StrippedTruthy(x) == IF IsStr(x) THEN Strip(x.s) # <<>> ELSE Truthy(x)

\* ------------------------------------------------------------ validity
\* (mutant: every tool is valid with a non-empty argument mapping)
IsValidToolUseAnyArguments(tool_name, tool_input) ==
    Truthy(tool_input) /\ IsDict(tool_input)

\* _is_valid_tool_use
IsValidToolUse(tool_name, tool_input) ==
    IF ~Truthy(tool_input) \/ ~IsDict(tool_input) THEN FALSE
    ELSE IF tool_name = Word("shell") THEN
        LET command == Get(tool_input, "command", EmptyStr)
            joined == IF IsList(command)
                      THEN PyStr(IF command.l # <<>> THEN Join(command.l) ELSE <<>>)
                      ELSE command
        IN StrippedTruthy(joined)
    ELSE IF tool_name = Word("mem0_memory") THEN
        LET action == Get(tool_input, "action", EmptyStr)
        IN IF action = Word("store")
           THEN StrippedTruthy(Get(tool_input, "content", EmptyStr))
           ELSE IF action = Word("retrieve")
           THEN StrippedTruthy(Get(tool_input, "query", EmptyStr))
           ELSE action \in {Word("list"), Word("delete"), Word("get"), Word("history")}
    ELSE IF tool_name = Word("file_write") THEN
        Truthy(Get(tool_input, "path", PyNone)) /\ Truthy(Get(tool_input, "content", PyNone))
    ELSE IF tool_name = Word("editor") THEN
        Truthy(Get(tool_input, "command", PyNone)) /\ Truthy(Get(tool_input, "path", PyNone))
    ELSE IF tool_name = Word("load_tool") THEN
        StrippedTruthy(Get(tool_input, "path", EmptyStr))
    ELSE Truthy(tool_input)

\* ------------------------------------------------------ handler state
\* The record of a run: the fields of its ReasoningHandler, the files under
\* the session's evidence directory ("files", name -> content), and what
\* the last call did: "op" is the method called, "out" what it printed, in
\* order, "raised" whether it ended by raising. g_* fields are history kept
\* for the properties: g_kwargs is the event of the last observed call,
\* g_text the text delivered and what was rendered since the last flush of
\* the reasoning buffer (block openers and lines).
OpenEv == [k |-> "open"]
CloseEv == [k |-> "close"]
LimitEv == [k |-> "limit"]
ParentEv == [k |-> "parent"]
LineEv(s) == [k |-> "line", text |-> s]
StepEv(id, n, name) == [k |-> "step", id |-> id, n |-> n, name |-> name]
ResultEv(id, status) == [k |-> "result", id |-> id, status |-> status]

\* ------------------------------------- the adaptive payload generator
\* (vulcan/actions/adaptive_payload_generator.py, AdaptivePayloadGenerator).
\* The tags of an oracle response are symbols of its text.
OpenTag == "<execute>"
CloseTag == "</execute>"

\* re.search(r'<execute>(.*?)</execute>', llm_response, re.DOTALL) and
\* match.group(1): the text between the first opening tag that a closing tag
\* follows and the next closing tag; None without a match
ExecuteMatch(llm_response) ==
    LET opens == {i \in 1..Len(llm_response) :
                     /\ llm_response[i] = OpenTag
                     /\ \E j \in (i + 1)..Len(llm_response) : llm_response[j] = CloseTag}
    IN IF opens = {} THEN PyNone
       ELSE LET i == CHOOSE a \in opens : \A b \in opens : a <= b
                j == CHOOSE a \in (i + 1)..Len(llm_response) :
                         /\ llm_response[a] = CloseTag
                         /\ \A b \in (i + 1)..(a - 1) : llm_response[b] # CloseTag
            IN PyStr(SubSeq(llm_response, i + 1, j - 1))

\* str.lower(), on the letters the verdicts are written with
Lower(s) ==
    [i \in 1..Len(s) |->
        CASE s[i] = "Y" -> "y" [] s[i] = "E" -> "e" [] s[i] = "S" -> "s"
          [] s[i] = "N" -> "n" [] s[i] = "O" -> "o" [] OTHER -> s[i]]

\* "yes" in success_check.lower(), the verdict a sequence of letters
SaysYes(success_check) ==
    \E i \in 1..(Len(success_check) - 2) :
        SubSeq(Lower(success_check), i, i + 2) = <<"y", "e", "s">>

\* APGResult(success=..., final_result=ExecuteResult(context={'code': [...]}, ...),
\* refined_command=..., attempts_history=...); final_result by the code of its context
APGResult(success, code, refined_command, attempts_history) ==
    [success |-> success, final_result |-> code,
     refined_command |-> refined_command, attempts_history |-> attempts_history]

\* AdaptivePayloadGenerator(initial_command=..., initial_result=..., max_refinements=...)
\* before run(): the fields, the locals of run() (i, current_command, last_result,
\* history), its return value, and the commands handed to ExecuteTask(...).run()
AdaptivePayloadGenerator(initial_command, initial_result, max_refinements) ==
    [ pc |-> "created",
      initial_command |-> initial_command,
      initial_result |-> initial_result,
      max_refinements |-> max_refinements,
      i |-> 0,
      current_command |-> <<>>,
      last_result |-> <<>>,
      history |-> <<>>,
      result |-> PyNone,
      executed |-> <<>> ]

\* the statements after the for loop: the failure result
RunFails(g) ==
    [g EXCEPT !.pc = "returned",
              !.result = APGResult(FALSE, <<g.current_command>>, PyNone, g.history)]

\* run(), up to the for loop; range(self.max_refinements) may be empty
RunEnter(g) ==
    LET entered == [g EXCEPT !.pc = "loop", !.i = 0,
                             !.current_command = g.initial_command,
                             !.last_result = g.initial_result,
                             !.history = <<>>]
    IN IF g.max_refinements <= 0 THEN RunFails(entered) ELSE entered

\* the repeat test of run(): the suggestion is the command of the last attempt
\* or a command of the history
IsRepeated(g, refined_command) ==
    \/ refined_command = g.current_command
    \/ \E k \in 1..Len(g.history) : g.history[k].command = refined_command

\* one body of "for i in range(self.max_refinements)" with the oracle's
\* suggestion, the executor's response and the oracle's verdict, and the
\* statements after the loop when the range is exhausted
RunIteration(g, llm_response, response, success_check) ==
    LET match == ExecuteMatch(llm_response)
        refined_command == Strip(match.s)
        ran == [g EXCEPT !.executed = Append(@, refined_command)]
        retry == [ran EXCEPT !.i = @ + 1,
                             !.current_command = refined_command,
                             !.last_result = response,
                             !.history = Append(@, [command |-> refined_command,
                                                    result |-> response])]
    IN IF match = PyNone
       THEN [g EXCEPT !.pc = "returned",
                      !.result = APGResult(FALSE, <<g.current_command>>, PyNone, g.history)]
       ELSE IF IsRepeated(g, refined_command) THEN RunFails(g)
       ELSE IF SaysYes(success_check)
       THEN [ran EXCEPT !.pc = "returned",
                        !.result = APGResult(TRUE, <<refined_command>>,
                                             PyStr(refined_command), g.history)]
       ELSE IF retry.i >= g.max_refinements THEN RunFails(retry)
       ELSE retry

\* ReasoningHandler.__init__
NewHandler(limit) ==
    [ current_reasoning_buffer |-> <<>>,
      reasoning_header_printed |-> FALSE,
      steps |-> 0,
      max_steps |-> limit,
      operation_id |-> Word("session-1"),
      memory_operations |-> 0,
      created_tools |-> <<>>,
      tools_used |-> <<>>,
      tool_effectiveness |-> <<>>,
      last_was_reasoning |-> FALSE,
      last_was_tool |-> FALSE,
      shown_tools |-> {},
      tool_use_map |-> <<>>,
      tool_results |-> <<>>,
      suppress_parent_output |-> FALSE,
      step_limit_reached |-> FALSE,
      stop_tool_used |-> FALSE,
      report_generated |-> FALSE,
      files |-> <<>>,
      main |-> [pc |-> "start", session |-> FALSE, agent |-> FALSE, handler |-> FALSE,
                interrupted |-> FALSE, crashes |-> 0, reports |-> 0, saved |-> FALSE,
                turns |-> 0, mark |-> 0, productive |-> TRUE],
      op |-> "init",
      out |-> <<>>,
      raised |-> FALSE,
      g_retrievals |-> 0,
      g_oracle_calls |-> 0,
      g_evidence |-> [findings |-> <<>>, plans |-> <<>>],
      g_env |-> [store |-> [client |-> "absent", output |-> PyNone], agent |-> "none",
                 fs |-> "ok", now |-> "", target |-> EmptyStr, objective |-> EmptyStr],
      g_counted |-> <<>>,
      g_rendered |-> <<>>,
      g_via |-> <<>>,
      g_invalid |-> {},
      g_kwargs |-> PyDict(<<>>),
      g_text |-> [stream |-> <<>>, rendered |-> <<>>],
      apg |-> AdaptivePayloadGenerator(<<>>, <<>>, 0) ]

\* f with f[k] incremented (0 when absent)
Bump(f, k) == (k :> (IF k \in DOMAIN f THEN f[k] + 1 ELSE 1)) @@ f
At(f, k) == IF k \in DOMAIN f THEN f[k] ELSE 0

\* text.replace("\r", "")
RECURSIVE RemoveCR(_)
RemoveCR(s) ==
    IF s = <<>> THEN <<>>
    ELSE IF Head(s) = "\r" THEN RemoveCR(Tail(s))
    ELSE <<Head(s)>> \o RemoveCR(Tail(s))

HasNewline(s) == \E i \in 1..Len(s) : s[i] = "\n"
FirstNewline(s) == CHOOSE i \in 1..Len(s) : s[i] = "\n" /\ \A j \in 1..(i - 1) : s[j] # "\n"

\* the header (once per block) and one reasoning line
PrintReasoningLine(h, line) ==
    LET opened == ~h.reasoning_header_printed
    IN [h EXCEPT !.out = @ \o (IF opened THEN <<OpenEv>> ELSE <<>>) \o <<LineEv(LStrip(line))>>,
                 !.reasoning_header_printed = TRUE,
                 !.last_was_tool = IF opened THEN FALSE ELSE @,
                 !.last_was_reasoning = TRUE]

\* (mutant: a fragment is rendered on its own, whatever the buffer holds)
RECURSIVE DrainLinesUnbuffered(_)
DrainLinesUnbuffered(h) ==
    LET buf == h.current_reasoning_buffer
    IN IF buf = <<>> THEN h
       ELSE LET i == IF HasNewline(buf) THEN FirstNewline(buf) ELSE Len(buf) + 1
                line == SubSeq(buf, 1, i - 1)
                h1 == [h EXCEPT !.current_reasoning_buffer = SubSeq(buf, i + 1, Len(buf))]
            IN IF Strip(line) = <<>> THEN DrainLinesUnbuffered(h1)
               ELSE DrainLinesUnbuffered(PrintReasoningLine(h1, line))

\* the loop of _handle_text_block, lines 207-226
RECURSIVE DrainLines(_)
DrainLines(h) ==
    LET buf == h.current_reasoning_buffer
    IN IF ~HasNewline(buf) THEN h
       ELSE LET i == FirstNewline(buf)
                line == SubSeq(buf, 1, i - 1)
                h1 == [h EXCEPT !.current_reasoning_buffer = SubSeq(buf, i + 1, Len(buf))]
            IN IF Strip(line) = <<>> THEN DrainLines(h1)
               ELSE DrainLines(PrintReasoningLine(h1, line))

\* _handle_text_block; text.replace raises AttributeError when text is not
\* a str
HandleTextBlock(h, text) ==
    IF ~IsStr(text) THEN [h EXCEPT !.raised = TRUE]
    ELSE DrainLines([h EXCEPT !.current_reasoning_buffer = @ \o RemoveCR(text.s)])

\* ------------------------------------------------- showing an invocation
\* path.replace("tools/", "").replace(".py", "")
ToolStem(path) == SelectSeq(path.s, LAMBDA c : c \notin {"tools/", ".py"})
StartsWithTools(path) == IsStr(path) /\ path.s # <<>> /\ Head(path.s) = "tools/"
EndsWithPy(path) == IsStr(path) /\ path.s # <<>> /\ path.s[Len(path.s)] = ".py"

\* the tool-specific display: _display_*_tool (the printed parameters are
\* part of the "step" render; tools_used keeps the summary's tool name)
DisplayTool(h, tool_name, tool_input) ==
    LET used == [h EXCEPT !.tools_used = Append(@, tool_name)]
        path == Get(tool_input, "path", EmptyStr)
    IN IF tool_name = Word("file_write") THEN
           IF StartsWithTools(path)
           THEN [used EXCEPT !.created_tools = Append(@, ToolStem(path))]
           ELSE used
       ELSE IF tool_name = Word("editor") THEN
           IF /\ Get(tool_input, "command", EmptyStr) = Word("create")
              /\ Truthy(Get(tool_input, "file_text", EmptyStr))
              /\ StartsWithTools(path) /\ EndsWithPy(path)
           THEN [used EXCEPT !.created_tools = Append(@, ToolStem(path))]
           ELSE used
       ELSE IF tool_name = Word("stop") THEN
           [used EXCEPT !.stop_tool_used = TRUE]
       ELSE used

\* (mutant: the partial line is dropped when an invocation is shown)
FlushReasoningDropsPartial(h) ==
    LET h1 == [h EXCEPT !.current_reasoning_buffer = <<>>]
    IN IF h1.reasoning_header_printed
       THEN [h1 EXCEPT !.out = Append(@, CloseEv), !.reasoning_header_printed = FALSE]
       ELSE h1

\* (mutant: the block stays open when an invocation is shown)
FlushReasoningKeepsOpen(h) ==
    IF h.current_reasoning_buffer # <<>>
    THEN PrintReasoningLine([h EXCEPT !.current_reasoning_buffer = <<>>],
                            h.current_reasoning_buffer)
    ELSE h

\* _show_tool_execution, lines 230-249: flush the partial line, close the block
FlushReasoning(h) ==
    LET h1 == IF h.current_reasoning_buffer # <<>>
              THEN PrintReasoningLine([h EXCEPT !.current_reasoning_buffer = <<>>],
                                      h.current_reasoning_buffer)
              ELSE h
    IN IF h1.reasoning_header_printed
       THEN [h1 EXCEPT !.out = Append(@, CloseEv), !.reasoning_header_printed = FALSE]
       ELSE h1

\* (mutants of the step-limit test: one step late, one step early)
LimitHitLate(h) == h.steps > h.max_steps /\ ~h.step_limit_reached
LimitHitEarly(h) == h.steps + 1 >= h.max_steps /\ ~h.step_limit_reached

\* the step-limit test of _show_tool_execution
LimitHit(h) == h.steps >= h.max_steps /\ ~h.step_limit_reached

\* (mutant: a stop is noted before the step limit is tested)
ShowToolExecutionStopFirst(h, tool_use) ==
    LET h1 == FlushReasoning(h)
        tool_id == Get(tool_use, "toolUseId", EmptyStr)
        tool_name == Get(tool_use, "name", Word("unknown"))
        raw_input == Get(tool_use, "input", EmptyDict)
        tool_input == IF IsDict(raw_input) THEN raw_input ELSE EmptyDict
    IN IF LimitHit(h1)
       THEN [h1 EXCEPT !.step_limit_reached = TRUE,
                       !.stop_tool_used = @ \/ tool_name = Word("stop"),
                       !.out = Append(@, LimitEv),
                       !.raised = TRUE]
       ELSE LET h2 == [h1 EXCEPT !.steps = @ + 1,
                                 !.g_counted = Bump(@, tool_id),
                                 !.out = Append(@, StepEv(tool_id, h1.steps + 1, tool_name)),
                                 !.g_rendered = Bump(@, tool_id)]
                h3 == DisplayTool(h2, tool_name, tool_input)
            IN [h3 EXCEPT !.last_was_tool = TRUE, !.last_was_reasoning = FALSE]

\* (mutant: the interrupt is raised without setting step_limit_reached)
ShowToolExecutionForgetful(h, tool_use) ==
    LET h1 == FlushReasoning(h)
        tool_id == Get(tool_use, "toolUseId", EmptyStr)
        tool_name == Get(tool_use, "name", Word("unknown"))
        raw_input == Get(tool_use, "input", EmptyDict)
        tool_input == IF IsDict(raw_input) THEN raw_input ELSE EmptyDict
    IN IF LimitHit(h1)
       THEN [h1 EXCEPT !.out = Append(@, LimitEv), !.raised = TRUE]
       ELSE LET h2 == [h1 EXCEPT !.steps = @ + 1,
                                 !.g_counted = Bump(@, tool_id),
                                 !.out = Append(@, StepEv(tool_id, h1.steps + 1, tool_name)),
                                 !.g_rendered = Bump(@, tool_id)]
                h3 == DisplayTool(h2, tool_name, tool_input)
            IN [h3 EXCEPT !.last_was_tool = TRUE, !.last_was_reasoning = FALSE]

\* _show_tool_execution
ShowToolExecution(h, tool_use) ==
    LET h1 == FlushReasoning(h)
        tool_id == Get(tool_use, "toolUseId", EmptyStr)
        tool_name == Get(tool_use, "name", Word("unknown"))
        raw_input == Get(tool_use, "input", EmptyDict)
        tool_input == IF IsDict(raw_input) THEN raw_input ELSE EmptyDict
    IN IF LimitHit(h1)
       THEN [h1 EXCEPT !.step_limit_reached = TRUE,
                       !.out = Append(@, LimitEv),
                       !.raised = TRUE]
       ELSE LET h2 == [h1 EXCEPT !.steps = @ + 1,
                                 !.g_counted = Bump(@, tool_id),
                                 !.out = Append(@, StepEv(tool_id, h1.steps + 1, tool_name)),
                                 !.g_rendered = Bump(@, tool_id)]
                h3 == DisplayTool(h2, tool_name, tool_input)
            IN [h3 EXCEPT !.last_was_tool = TRUE, !.last_was_reasoning = FALSE]

\* ------------------------------------------------------------- outcomes
\* _show_tool_result
ShowToolResult(h, tool_id, tool_result) ==
    [h EXCEPT !.out = Append(@, ResultEv(tool_id, Get(tool_result, "status", Word("unknown"))))]

\* (mutant: every status but "error" counts as a success)
TrackToolEffectivenessLax(h, tool_id, tool_result) ==
    LET tool_use == IF tool_id \in DOMAIN h.tool_use_map THEN h.tool_use_map[tool_id] ELSE EmptyDict
        tool_name == Get(tool_use, "name", Word("unknown"))
        status == Get(tool_result, "status", Word("unknown"))
        eff == IF tool_name \in DOMAIN h.tool_effectiveness
               THEN h.tool_effectiveness
               ELSE (tool_name :> [success |-> 0, error |-> 0]) @@ h.tool_effectiveness
    IN [h EXCEPT !.tool_effectiveness =
            IF status # Word("error")
            THEN [eff EXCEPT ![tool_name].success = @ + 1]
            ELSE [eff EXCEPT ![tool_name].error = @ + 1]]

\* _track_tool_effectiveness
TrackToolEffectiveness(h, tool_id, tool_result) ==
    LET tool_use == IF tool_id \in DOMAIN h.tool_use_map THEN h.tool_use_map[tool_id] ELSE EmptyDict
        tool_name == Get(tool_use, "name", Word("unknown"))
        status == Get(tool_result, "status", Word("unknown"))
        eff == IF tool_name \in DOMAIN h.tool_effectiveness
               THEN h.tool_effectiveness
               ELSE (tool_name :> [success |-> 0, error |-> 0]) @@ h.tool_effectiveness
    IN [h EXCEPT !.tool_effectiveness =
            IF status = Word("success")
            THEN [eff EXCEPT ![tool_name].success = @ + 1]
            ELSE [eff EXCEPT ![tool_name].error = @ + 1]]

\* lines 116-125: a matched outcome of a memory store counts as a memory write
IsMemoryStore(tool_use) ==
    /\ Get(tool_use, "name", EmptyStr) = Word("mem0_memory")
    /\ Get(Get(tool_use, "input", EmptyDict), "action", PyNone) = Word("store")

\* ---------------------------------------------------------- __call__
\* history: an invocation examined by an active processor, through "channel":
\* g_via[id] is the set of channels that delivered id with valid arguments,
\* g_invalid the ids delivered with invalid arguments before they were shown
NoteDelivery(h, channel, tool_use) ==
    LET tool_id == Get(tool_use, "toolUseId", EmptyStr)
        valid == IsValidToolUse(Get(tool_use, "name", EmptyStr), Get(tool_use, "input", EmptyDict))
        before == IF tool_id \in DOMAIN h.g_via THEN h.g_via[tool_id] ELSE {}
    IN IF valid
       THEN [h EXCEPT !.g_via = (tool_id :> (before \cup {channel})) @@ @]
       ELSE IF tool_id \notin h.shown_tools THEN [h EXCEPT !.g_invalid = @ \cup {tool_id}]
       ELSE h

\* lines 86-89: one block of the text pass
MessageText(h, block) ==
    IF IsDict(block) /\ Get(block, "type", PyNone) = Word("text")
    THEN HandleTextBlock(h, Get(block, "text", EmptyStr))
    ELSE h

\* (mutant: the id is marked shown before the arguments are validated)
MessageToolUseMarksFirst(h, block) ==
    IF IsDict(block) /\ Has(block, "toolUse") THEN
        LET tool_use == block.d["toolUse"]
            tool_id == Get(tool_use, "toolUseId", EmptyStr)
            noted == NoteDelivery(h, "message", tool_use)
        IN IF ~IsDict(tool_use) THEN [h EXCEPT !.raised = TRUE]
           ELSE IF tool_id \notin h.shown_tools
           THEN LET h1 == [noted EXCEPT !.shown_tools = @ \cup {tool_id}]
                IN IF IsValidToolUse(Get(tool_use, "name", EmptyStr),
                                     Get(tool_use, "input", EmptyDict))
                   THEN LET h2 == ShowToolExecution(
                                      [h1 EXCEPT !.tool_use_map = (tool_id :> tool_use) @@ @],
                                      tool_use)
                        IN IF h2.raised THEN h2
                           ELSE [h2 EXCEPT !.last_was_tool = TRUE, !.last_was_reasoning = FALSE]
                   ELSE h1
           ELSE noted
    ELSE h

\* lines 92-105: one block of the tool-use pass
MessageToolUse(h, block) ==
    IF IsDict(block) /\ Has(block, "toolUse") THEN
        LET tool_use == block.d["toolUse"]
            tool_id == Get(tool_use, "toolUseId", EmptyStr)
            noted == NoteDelivery(h, "message", tool_use)
        IN IF ~IsDict(tool_use) THEN [h EXCEPT !.raised = TRUE]
           ELSE IF /\ tool_id \notin h.shown_tools
                   /\ IsValidToolUse(Get(tool_use, "name", EmptyStr),
                                     Get(tool_use, "input", EmptyDict))
           THEN LET h1 == [noted EXCEPT !.shown_tools = @ \cup {tool_id},
                                        !.tool_use_map = (tool_id :> tool_use) @@ @]
                    h2 == ShowToolExecution(h1, tool_use)
                IN IF h2.raised THEN h2
                   ELSE [h2 EXCEPT !.last_was_tool = TRUE, !.last_was_reasoning = FALSE]
           ELSE noted
    ELSE h

\* lines 108-125: one block of the tool-result pass
MessageToolResult(h, block) ==
    IF IsDict(block) /\ Has(block, "toolResult") THEN
        LET tool_result == block.d["toolResult"]
            tool_id == Get(tool_result, "toolUseId", EmptyStr)
        IN IF ~IsDict(tool_result) THEN [h EXCEPT !.raised = TRUE]
           ELSE IF tool_id \in DOMAIN h.tool_use_map
           THEN LET h1 == [h EXCEPT !.tool_results = (tool_id :> tool_result) @@ @]
                    h2 == ShowToolResult(h1, tool_id, tool_result)
                    h3 == TrackToolEffectiveness(h2, tool_id, tool_result)
                IN IF IsMemoryStore(h3.tool_use_map[tool_id])
                   THEN [h3 EXCEPT !.memory_operations = @ + 1]
                   ELSE h3
           ELSE h
    ELSE h

\* the body of "for block in content" in each of the three passes
PassBlock(pass, h, block) ==
    IF pass = "text" THEN MessageText(h, block)
    ELSE IF pass = "toolUse" THEN MessageToolUse(h, block)
    ELSE MessageToolResult(h, block)

\* "for block in content": the blocks in order; the loop ends when the call
\* has raised
RECURSIVE Pass(_, _, _)
Pass(pass, h, blocks) ==
    IF blocks = <<>> \/ h.raised THEN h
    ELSE Pass(pass, PassBlock(pass, h, Head(blocks)), Tail(blocks))

\* (mutant: the outcome blocks are processed before the invocation blocks)
CallMessageResultsFirst(h, message) ==
    IF IsDict(message) /\ Get(message, "content", PyList(<<>>)).t \in {"none", "int"}
    THEN [h EXCEPT !.raised = TRUE]
    ELSE IF IsDict(message) THEN
        LET blocks == Get(message, "content", PyList(<<>>))
            content == IF IsList(blocks) THEN blocks.l ELSE <<>>
            h1 == Pass("text", h, content)
            h2 == Pass("toolResult", h1, content)
            h3 == Pass("toolUse", h2, content)
        IN IF h3.raised THEN h3 ELSE [h3 EXCEPT !.suppress_parent_output = TRUE]
    ELSE h

\* lines 81-129; "for block in content" raises TypeError on a content that
\* cannot be iterated, and finds no mapping in a str or in the keys of a dict
CallMessage(h, message) ==
    IF IsDict(message) /\ Get(message, "content", PyList(<<>>)).t \in {"none", "int"}
    THEN [h EXCEPT !.raised = TRUE]
    ELSE IF IsDict(message) THEN
        LET blocks == Get(message, "content", PyList(<<>>))
            content == IF IsList(blocks) THEN blocks.l ELSE <<>>
            h1 == Pass("text", h, content)
            h2 == Pass("toolUse", h1, content)
            h3 == Pass("toolResult", h2, content)
        IN IF h3.raised THEN h3 ELSE [h3 EXCEPT !.suppress_parent_output = TRUE]
    ELSE h

\* (mutant: the announcement is not matched against the shown ids)
CallToolUseNoDedup(h, tool) ==
    LET tool_id == Get(tool, "toolUseId", EmptyStr)
        noted == NoteDelivery(h, "stream", tool)
    IN IF h.step_limit_reached THEN h
       ELSE IF ~IsDict(tool) THEN [h EXCEPT !.raised = TRUE]
       ELSE IF IsValidToolUse(Get(tool, "name", EmptyStr), Get(tool, "input", EmptyDict))
       THEN LET h1 == [noted EXCEPT !.shown_tools = @ \cup {tool_id},
                                    !.tool_use_map = (tool_id :> tool) @@ @]
                h2 == ShowToolExecution(h1, tool)
            IN IF h2.raised THEN h2
               ELSE [h2 EXCEPT !.last_was_tool = TRUE, !.last_was_reasoning = FALSE]
       ELSE noted

\* (mutant: an announced invocation is marked shown but not recorded)
CallToolUseUnrecorded(h, tool) ==
    LET tool_id == Get(tool, "toolUseId", EmptyStr)
        noted == NoteDelivery(h, "stream", tool)
    IN IF h.step_limit_reached THEN h
       ELSE IF ~IsDict(tool) THEN [h EXCEPT !.raised = TRUE]
       ELSE IF /\ IsValidToolUse(Get(tool, "name", EmptyStr), Get(tool, "input", EmptyDict))
               /\ tool_id \notin h.shown_tools
       THEN LET h1 == [noted EXCEPT !.shown_tools = @ \cup {tool_id}]
                h2 == ShowToolExecution(h1, tool)
            IN IF h2.raised THEN h2
               ELSE [h2 EXCEPT !.last_was_tool = TRUE, !.last_was_reasoning = FALSE]
       ELSE noted

\* lines 132-147
CallToolUse(h, tool) ==
    LET tool_id == Get(tool, "toolUseId", EmptyStr)
        tool_input == Get(tool, "input", EmptyDict)
        noted == NoteDelivery(h, "stream", tool)
    IN IF h.step_limit_reached THEN h
       ELSE IF ~IsDict(tool) THEN [h EXCEPT !.raised = TRUE]
       ELSE IF /\ IsValidToolUse(Get(tool, "name", EmptyStr), tool_input)
               /\ tool_id \notin h.shown_tools
       THEN LET h1 == [noted EXCEPT !.shown_tools = @ \cup {tool_id},
                                    !.tool_use_map = (tool_id :> tool) @@ @]
                h2 == ShowToolExecution(h1, tool)
            IN IF h2.raised THEN h2
               ELSE [h2 EXCEPT !.last_was_tool = TRUE, !.last_was_reasoning = FALSE]
       ELSE noted

\* (mutant: a standalone outcome is not matched against the recorded ids)
CallToolResultUnmatched(h, tool_result) ==
    LET tool_id == Get(tool_result, "toolUseId", EmptyStr)
    IN IF ~IsDict(tool_result) THEN [h EXCEPT !.raised = TRUE]
       ELSE TrackToolEffectiveness(ShowToolResult(h, tool_id, tool_result), tool_id, tool_result)

\* lines 150-156
CallToolResult(h, tool_result) ==
    LET tool_id == Get(tool_result, "toolUseId", EmptyStr)
    IN IF ~IsDict(tool_result) THEN [h EXCEPT !.raised = TRUE]
       ELSE IF tool_id \in DOMAIN h.tool_use_map
       THEN TrackToolEffectiveness(ShowToolResult(h, tool_id, tool_result), tool_id, tool_result)
       ELSE h

\* (mutant: lifecycle events always reach the parent)
CallLifecycleAlways(h) == [h EXCEPT !.out = Append(@, ParentEv)]

\* lines 159-171
CallLifecycle(h) ==
    IF ~h.suppress_parent_output THEN [h EXCEPT !.out = Append(@, ParentEv)] ELSE h

\* (mutant: the processor is terminal once a stop was recorded, too)
RefusesAfterStop(h) == h.step_limit_reached \/ h.stop_tool_used

\* (mutant: the processor keeps processing after the limit)
RefusesNever(h) == FALSE

\* lines 70-72: the processor is terminal once the limit has been reached
Refuses(h) == h.step_limit_reached

\* (mutant: an announcement is looked at before the text and the message)
CallAnnouncementFirst(h, kwargs) ==
    LET h0 == [h EXCEPT !.op = "handle", !.out = <<>>, !.raised = FALSE]
    IN IF Refuses(h0) THEN h0
       ELSE IF Has(kwargs, "current_tool_use") THEN CallToolUse(h0, kwargs.d["current_tool_use"])
       ELSE IF Has(kwargs, "data") THEN HandleTextBlock(h0, Get(kwargs, "data", EmptyStr))
       ELSE IF Has(kwargs, "message") /\ IsDict(kwargs.d["message"])
            THEN CallMessage(h0, kwargs.d["message"])
       ELSE IF Has(kwargs, "toolResult") THEN CallToolResult(h0, kwargs.d["toolResult"])
       ELSE IF \E k \in {"init_event_loop", "start_event_loop", "start", "complete", "force_stop"} :
                   Has(kwargs, k)
            THEN CallLifecycle(h0)
       ELSE h0

\* __call__(**kwargs): kwargs is a dict; the first key present decides
Call(h, kwargs) ==
    LET h0 == [h EXCEPT !.op = "handle", !.out = <<>>, !.raised = FALSE]
    IN IF Refuses(h0) THEN h0
       ELSE IF Has(kwargs, "data") THEN HandleTextBlock(h0, Get(kwargs, "data", EmptyStr))
       ELSE IF Has(kwargs, "message") /\ IsDict(kwargs.d["message"])
            THEN CallMessage(h0, kwargs.d["message"])
       ELSE IF Has(kwargs, "current_tool_use") THEN CallToolUse(h0, kwargs.d["current_tool_use"])
       ELSE IF Has(kwargs, "toolResult") THEN CallToolResult(h0, kwargs.d["toolResult"])
       ELSE IF \E k \in {"init_event_loop", "start_event_loop", "start", "complete", "force_stop"} :
                   Has(kwargs, k)
            THEN CallLifecycle(h0)
       ELSE h0

\* ------------------------------------------------------ derived queries
\* (mutant: only the two flags stop the caller)
should_stop_on_flags(h) == h.step_limit_reached \/ h.stop_tool_used

\* (mutant: the limit counts as reached one step late)
has_reached_limit_late(h) == h.steps > h.max_steps

has_reached_limit(h) == h.steps >= h.max_steps
should_stop(h) == has_reached_limit(h) \/ h.stop_tool_used
Max(a, b) == IF a >= b THEN a ELSE b
get_remaining_steps(h) == Max(0, h.max_steps - h.steps)
\* (mutant: the thresholds belong to the level above)
get_budget_urgency_level_inclusive(h) ==
    LET remaining == get_remaining_steps(h)
    IN IF remaining >= 20 THEN "ABUNDANT"
       ELSE IF remaining >= 10 THEN "CONSTRAINED"
       ELSE IF remaining >= 5 THEN "CRITICAL"
       ELSE "EMERGENCY"

\* (mutant: the levels are taken from the steps used, out of 100)
get_budget_urgency_level_by_steps(h) ==
    IF h.steps < 70 THEN "ABUNDANT"
    ELSE IF h.steps < 80 THEN "CONSTRAINED"
    ELSE IF h.steps < 95 THEN "CRITICAL"
    ELSE "EMERGENCY"

get_budget_urgency_level(h) ==
    LET remaining == get_remaining_steps(h)
    IN IF remaining > 20 THEN "ABUNDANT"
       ELSE IF remaining > 10 THEN "CONSTRAINED"
       ELSE IF remaining > 5 THEN "CRITICAL"
       ELSE "EMERGENCY"

\* ------------------------------------------------------ evidence
PyInt(n) == [t |-> "int", n |-> n]
IsInt(v) == v.t = "int"

\* _retrieve_evidence, lines 722-738: the partition of the listing; a record
\* whose metadata has no .get raises, which ends the loop (line 743)
RECURSIVE Partition(_, _)
Partition(ev, memory_list) ==
    IF memory_list = <<>> THEN ev
    ELSE LET mem == Head(memory_list)
         IN IF ~IsDict(mem) THEN Partition(ev, Tail(memory_list))
            ELSE LET metadata == Get(mem, "metadata", EmptyDict)
                 IN IF ~IsDict(metadata) THEN ev
                    ELSE LET category == Get(metadata, "category", PyNone)
                             memory_to_store ==
                                 PyDict([content |-> Get(mem, "memory", Word("N/A")),
                                         metadata |-> metadata])
                         IN Partition(
                                IF category = Word("finding")
                                THEN [ev EXCEPT !.findings = Append(@, memory_to_store)]
                                ELSE IF category = Word("plan")
                                THEN [ev EXCEPT !.plans = Append(@, memory_to_store)]
                                ELSE ev,
                                Tail(memory_list))

\* (mutant: a client error is turned into a finding)
RetrieveEvidenceErrorFinding(store) ==
    LET all_evidence == [findings |-> <<>>, plans |-> <<>>]
        raw == store.output
    IN IF store.client # "ok"
       THEN [all_evidence EXCEPT !.findings =
                <<PyDict([content |-> Word("N/A"), metadata |-> EmptyDict])>>]
       ELSE IF IsDict(raw) /\ Has(raw, "results") THEN Partition(all_evidence, raw.d["results"].l)
       ELSE IF IsList(raw) THEN Partition(all_evidence, raw.l)
       ELSE all_evidence

\* _retrieve_evidence; store.client is "absent", "raises" or "ok", store.output
\* what get_all returns
RetrieveEvidence(store) ==
    LET all_evidence == [findings |-> <<>>, plans |-> <<>>]
        raw == store.output
    IN IF store.client # "ok" THEN all_evidence
       ELSE IF IsDict(raw) /\ Has(raw, "results") THEN Partition(all_evidence, raw.d["results"].l)
       ELSE IF IsList(raw) THEN Partition(all_evidence, raw.l)
       ELSE all_evidence

\* ------------------------------------------------------ the final plan
\* json.loads on the texts a plan record may hold: an object with a version,
\* an empty object, an empty array, a scalar; anything else does not decode
JsonStrings == <<"v1", "version">>
JsonScalar(tok) ==
    IF tok \in {"1", "2", "3"} THEN PyInt(CHOOSE n \in 1..3 : ToString(n) = tok)
    ELSE IF tok = "\"v1\"" THEN Word("v1")
    ELSE IF tok = "\"version\"" THEN Word("version")
    ELSE PyNone
IsJsonScalar(tok) == tok \in {"1", "2", "3", "\"v1\"", "\"version\"", "null"}
JsonLoads(s) ==
    IF s = <<"{", "}">> THEN [ok |-> TRUE, v |-> EmptyDict]
    ELSE IF s = <<"[", "]">> THEN [ok |-> TRUE, v |-> PyList(<<>>)]
    ELSE IF Len(s) = 1 /\ IsJsonScalar(s[1]) THEN [ok |-> TRUE, v |-> JsonScalar(s[1])]
    ELSE IF /\ Len(s) = 5 /\ s[1] = "{" /\ s[2] = "\"version\"" /\ s[3] = ":"
            /\ IsJsonScalar(s[4]) /\ s[5] = "}"
         THEN [ok |-> TRUE, v |-> PyDict([version |-> JsonScalar(s[4])])]
    ELSE [ok |-> FALSE, v |-> PyNone]

\* "version" in plan_content: "yes", "no", or "raise" (TypeError)
HasVersion(v) ==
    IF IsDict(v) THEN (IF Has(v, "version") THEN "yes" ELSE "no")
    ELSE IF IsList(v) THEN (IF \E i \in 1..Len(v.l) : v.l[i] = Word("version") THEN "yes" ELSE "no")
    ELSE IF IsStr(v) THEN (IF \E i \in 1..Len(v.s) : v.s[i] = "version" THEN "yes" ELSE "no")
    ELSE "raise"

\* lines 771-777: the decoded plans that contain a version
RECURSIVE VersionedPlans(_)
VersionedPlans(plans) ==
    IF plans = <<>> THEN <<>>
    ELSE LET content == Get(Head(plans), "content", PyNone)
             decoded == IF IsStr(content) THEN JsonLoads(content.s) ELSE [ok |-> FALSE, v |-> PyNone]
         IN (IF decoded.ok /\ HasVersion(decoded.v) = "yes" THEN <<decoded.v>> ELSE <<>>)
                \o VersionedPlans(Tail(plans))

\* the sort key p.get("version", 0) and its order
KeyRank(key) ==
    IF IsInt(key) THEN key.n
    ELSE IF IsStr(key) THEN CHOOSE r \in 1..Len(JsonStrings) : JsonStrings[r] = key.s[1]
    ELSE 0
Comparable(keys) ==
    \/ Len(keys) <= 1
    \/ \A i \in 1..Len(keys) : IsInt(keys[i])
    \/ \A i \in 1..Len(keys) : IsStr(keys[i])

NoPlanStr == [kind |-> "no_plan"]
PlanErrorStr == [kind |-> "plan_error"]
PlanStr(plan) == [kind |-> "plan", plan |-> plan]

\* _generate_llm_report, lines 767-785
FinalPlanStr(plans) ==
    IF plans = <<>> THEN NoPlanStr
    ELSE LET versioned == VersionedPlans(plans)
         IN IF versioned = <<>> THEN NoPlanStr
            ELSE IF \E i \in 1..Len(versioned) : ~IsDict(versioned[i]) THEN PlanErrorStr
            ELSE LET keys == [i \in 1..Len(versioned) |-> Get(versioned[i], "version", PyInt(0))]
                 IN IF ~Comparable(keys) THEN PlanErrorStr
                    ELSE LET top == CHOOSE i \in 1..Len(keys) :
                                        /\ \A j \in 1..Len(keys) : KeyRank(keys[j]) <= KeyRank(keys[i])
                                        /\ \A j \in 1..(i - 1) : KeyRank(keys[j]) < KeyRank(keys[i])
                         IN PlanStr(versioned[top])

\* ------------------------------------------------------ the report
FALLBACK_EVIDENCE_PREVIEW_LENGTH == 200
ReportPreviewLength == 200
MaxGroupItems == 5

Min(a, b) == IF a <= b THEN a ELSE b

\* x[:n] and len(x) are defined for a str and for a list
Sliceable(v) == IsStr(v) \/ IsList(v)
Items(v) == IF IsStr(v) THEN v.s ELSE v.l
\* x[:n], with the mark that follows it when len(x) > n
Preview(v, n) ==
    [head |-> SubSeq(Items(v), 1, Min(n, Len(Items(v)))), cut |-> Len(Items(v)) > n]

\* get_summary
get_summary(h) ==
    [total_steps |-> h.steps,
     tools_created |-> Len(h.created_tools),
     memory_operations |-> h.memory_operations,
     operation_id |-> h.operation_id]

\* (mutant: the plans are not reported)
GenerateNoEvidenceReportNoPlans(h, plans) ==
    [kind |-> "no_evidence",
     steps |-> get_summary(h).total_steps,
     max_steps |-> h.max_steps,
     memory_operations |-> get_summary(h).memory_operations,
     plan_versions |-> 0]

\* _generate_no_evidence_report
GenerateNoEvidenceReport(h, plans) ==
    [kind |-> "no_evidence",
     steps |-> get_summary(h).total_steps,
     max_steps |-> h.max_steps,
     memory_operations |-> get_summary(h).memory_operations,
     plan_versions |-> Len(plans)]

\* _display_fallback_evidence: prints the items in order; item["content"][:n]
\* raises TypeError on a content that cannot be sliced
RECURSIVE DisplayFallbackEvidence(_, _)
DisplayFallbackEvidence(h, evidence) ==
    IF evidence = <<>> THEN h
    ELSE LET content == Head(evidence).d["content"]
         IN IF ~Sliceable(content) THEN [h EXCEPT !.raised = TRUE]
            ELSE DisplayFallbackEvidence(
                     [h EXCEPT !.out = Append(@, [k |-> "evidence",
                                                  preview |-> Preview(content, FALLBACK_EVIDENCE_PREVIEW_LENGTH)])],
                     Tail(evidence))

\* lines 916-919: the contents by category, in order
CategoryOf(item) == Get(Get(item, "metadata", EmptyDict), "category", Word("unknown"))
Categories(evidence) == {CategoryOf(evidence[i]) : i \in 1..Len(evidence)}
ItemsOf(evidence, cat) ==
    LET RECURSIVE Pick(_)
        Pick(e) == IF e = <<>> THEN <<>>
                   ELSE (IF CategoryOf(Head(e)) = cat THEN <<Get(Head(e), "content", EmptyStr)>> ELSE <<>>)
                            \o Pick(Tail(e))
    IN Pick(evidence)

\* _generate_fallback_report: by category, the previews of the first items
\* and the number of the others; raises on a content that cannot be sliced
FallbackRaises(evidence) ==
    \E cat \in Categories(evidence) :
        \E i \in 1..Min(MaxGroupItems, Len(ItemsOf(evidence, cat))) :
            ~Sliceable(ItemsOf(evidence, cat)[i])
GenerateFallbackReport(h, evidence) ==
    [kind |-> "fallback",
     steps |-> get_summary(h).total_steps,
     max_steps |-> h.max_steps,
     tools_created |-> get_summary(h).tools_created,
     evidence_items |-> Len(evidence),
     memory_operations |-> get_summary(h).memory_operations,
     groups |-> [cat \in Categories(evidence) |->
                    LET items == ItemsOf(evidence, cat)
                    IN [previews |-> [i \in 1..Min(MaxGroupItems, Len(items)) |->
                                         Preview(items[i], ReportPreviewLength)],
                        more |-> IF Len(items) > MaxGroupItems
                                 THEN Len(items) - MaxGroupItems ELSE 0]]]

\* _generate_llm_report: the prompt, then the report agent; agent is "none"
\* (absent or not callable), "ok" or "raises". The answer of the oracle is a
\* function of the prompt.
ReportPrompt(target, objective, findings, plans) ==
    [target |-> target,
     objective |-> objective,
     findings |-> [i \in 1..Len(findings) |-> findings[i].d["content"]],
     final_plan |-> FinalPlanStr(plans)]
GenerateLlmReport(agent, target, objective, findings, plans) ==
    LET report_prompt == ReportPrompt(target, objective, findings, plans)
    IN [asked |-> agent # "none",
        raised |-> agent # "ok",
        text |-> [kind |-> "llm", prompt |-> report_prompt]]

\* _save_report_to_file; fs is "ok", "mkdir_fails" or "open_fails"
ReportFileName(h, now) == [dir |-> "evidence", stem |-> "final_report", timestamp |-> now]

\* (mutant: a failure of mkdir or open is not caught)
SaveReportToFileUncaught(h, report_content, env) ==
    IF env.fs = "ok"
    THEN LET name == ReportFileName(h, env.now)
             text == [operation_id |-> h.operation_id,
                      target |-> env.target,
                      objective |-> env.objective,
                      generated |-> env.now,
                      body |-> report_content]
         IN [h EXCEPT !.files = (name :> text) @@ @,
                      !.out = Append(@, [k |-> "saved", name |-> name])]
    ELSE [h EXCEPT !.raised = TRUE]

\* (mutant: saving the report starts the statistics afresh)
SaveReportToFileResetting(h, report_content, env) ==
    [h EXCEPT !.steps = 0, !.memory_operations = 0, !.shown_tools = {},
              !.out = Append(@, [k |-> "warning"])]

\* (mutant: saving the report counts as a memory write)
SaveReportToFileCounting(h, report_content, env) ==
    IF env.fs = "ok"
    THEN LET name == ReportFileName(h, env.now)
             text == [operation_id |-> h.operation_id,
                      target |-> env.target,
                      objective |-> env.objective,
                      generated |-> env.now,
                      body |-> report_content]
         IN [h EXCEPT !.files = (name :> text) @@ @,
                      !.memory_operations = @ + 1,
                      !.out = Append(@, [k |-> "saved", name |-> name])]
    ELSE [h EXCEPT !.out = Append(@, [k |-> "warning"])]

\* _save_report_to_file
SaveReportToFile(h, report_content, env) ==
    IF env.fs = "ok"
    THEN LET name == ReportFileName(h, env.now)
             text == [operation_id |-> h.operation_id,
                      target |-> env.target,
                      objective |-> env.objective,
                      generated |-> env.now,
                      body |-> report_content]
         IN [h EXCEPT !.files = (name :> text) @@ @,
                      !.out = Append(@, [k |-> "saved", name |-> name])]
    ELSE [h EXCEPT !.out = Append(@, [k |-> "warning"])]

\* (mutant: the report is generated again on every call)
AlreadyGeneratedNever(h) == FALSE

\* lines 670-671
AlreadyGenerated(h) == h.report_generated

\* generate_final_report; env holds the collaborators of the call: the
\* evidence store, the agent, the filesystem, the clock, target and objective
GenerateFinalReportCall(h, env) ==
    LET h0 == [h EXCEPT !.op = "report", !.out = <<>>, !.raised = FALSE]
    IN IF AlreadyGenerated(h0) THEN h0
       ELSE LET all_evidence == RetrieveEvidence(env.store)
                h1 == [h0 EXCEPT !.report_generated = TRUE, !.g_retrievals = @ + 1,
                                 !.g_evidence = all_evidence, !.g_env = env]
                findings == all_evidence.findings
                plans == all_evidence.plans
            IN IF findings = <<>>
               THEN SaveReportToFile([h1 EXCEPT !.out = Append(@, [k |-> "no_evidence"])],
                                     GenerateNoEvidenceReport(h1, plans), env)
               ELSE LET llm == GenerateLlmReport(env.agent, env.target, env.objective, findings, plans)
                        h2 == [h1 EXCEPT !.out = Append(@, [k |-> "analyzing"]),
                                         !.g_oracle_calls = IF llm.asked THEN @ + 1 ELSE @]
                    IN IF ~llm.raised THEN SaveReportToFile(h2, llm.text, env)
                       ELSE LET h3 == DisplayFallbackEvidence(
                                          [h2 EXCEPT !.out = Append(@, [k |-> "report_error"])],
                                          findings)
                            IN IF h3.raised THEN h3
                               ELSE IF FallbackRaises(findings) THEN [h3 EXCEPT !.raised = TRUE]
                               ELSE SaveReportToFile(h3, GenerateFallbackReport(h3, findings), env)

\* ------------------------------------------------------------- state
\* the fields of the one ReasoningHandler of a run, the evidence directory,
\* the last call and the history fields
VARIABLES
    current_reasoning_buffer,
    reasoning_header_printed,
    steps,
    max_steps,
    operation_id,
    memory_operations,
    created_tools,
    tools_used,
    tool_effectiveness,
    last_was_reasoning,
    last_was_tool,
    shown_tools,
    tool_use_map,
    tool_results,
    suppress_parent_output,
    step_limit_reached,
    stop_tool_used,
    report_generated,
    files,
    op,
    out,
    raised,
    g_counted,
    g_rendered,
    g_via,
    g_invalid,
    g_retrievals,
    g_oracle_calls,
    g_evidence,
    g_env,
    main,
    g_kwargs,
    g_text,
    apg

vars ==
    <<current_reasoning_buffer, reasoning_header_printed, steps, max_steps,
      operation_id, memory_operations, created_tools, tools_used,
      tool_effectiveness, last_was_reasoning, last_was_tool, shown_tools,
      tool_use_map, tool_results, suppress_parent_output, step_limit_reached,
      stop_tool_used, report_generated, files, op,
      out, raised, g_counted, g_rendered,
      g_via, g_invalid, g_retrievals, g_oracle_calls, g_evidence,
      g_env, main, g_kwargs, g_text, apg>>

\* the run as a record
Self ==
    [ current_reasoning_buffer |-> current_reasoning_buffer,
      reasoning_header_printed |-> reasoning_header_printed,
      steps |-> steps,
      max_steps |-> max_steps,
      operation_id |-> operation_id,
      memory_operations |-> memory_operations,
      created_tools |-> created_tools,
      tools_used |-> tools_used,
      tool_effectiveness |-> tool_effectiveness,
      last_was_reasoning |-> last_was_reasoning,
      last_was_tool |-> last_was_tool,
      shown_tools |-> shown_tools,
      tool_use_map |-> tool_use_map,
      tool_results |-> tool_results,
      suppress_parent_output |-> suppress_parent_output,
      step_limit_reached |-> step_limit_reached,
      stop_tool_used |-> stop_tool_used,
      report_generated |-> report_generated,
      files |-> files,
      op |-> op,
      out |-> out,
      raised |-> raised,
      g_counted |-> g_counted,
      g_rendered |-> g_rendered,
      g_via |-> g_via,
      g_invalid |-> g_invalid,
      g_retrievals |-> g_retrievals,
      g_oracle_calls |-> g_oracle_calls,
      g_evidence |-> g_evidence,
      g_env |-> g_env,
      main |-> main,
      g_kwargs |-> g_kwargs,
      g_text |-> g_text,
      apg |-> apg ]

\* the run after a call
Store(new) ==
    /\ current_reasoning_buffer' = new.current_reasoning_buffer
    /\ reasoning_header_printed' = new.reasoning_header_printed
    /\ steps' = new.steps
    /\ max_steps' = new.max_steps
    /\ operation_id' = new.operation_id
    /\ memory_operations' = new.memory_operations
    /\ created_tools' = new.created_tools
    /\ tools_used' = new.tools_used
    /\ tool_effectiveness' = new.tool_effectiveness
    /\ last_was_reasoning' = new.last_was_reasoning
    /\ last_was_tool' = new.last_was_tool
    /\ shown_tools' = new.shown_tools
    /\ tool_use_map' = new.tool_use_map
    /\ tool_results' = new.tool_results
    /\ suppress_parent_output' = new.suppress_parent_output
    /\ step_limit_reached' = new.step_limit_reached
    /\ stop_tool_used' = new.stop_tool_used
    /\ report_generated' = new.report_generated
    /\ files' = new.files
    /\ op' = new.op
    /\ out' = new.out
    /\ raised' = new.raised
    /\ g_counted' = new.g_counted
    /\ g_rendered' = new.g_rendered
    /\ g_via' = new.g_via
    /\ g_invalid' = new.g_invalid
    /\ g_retrievals' = new.g_retrievals
    /\ g_oracle_calls' = new.g_oracle_calls
    /\ g_evidence' = new.g_evidence
    /\ g_env' = new.g_env
    /\ main' = new.main
    /\ g_kwargs' = new.g_kwargs
    /\ g_text' = new.g_text
    /\ apg' = new.apg

\* the run as constructed
Constructed(h) ==
    /\ current_reasoning_buffer = h.current_reasoning_buffer
    /\ reasoning_header_printed = h.reasoning_header_printed
    /\ steps = h.steps
    /\ max_steps = h.max_steps
    /\ operation_id = h.operation_id
    /\ memory_operations = h.memory_operations
    /\ created_tools = h.created_tools
    /\ tools_used = h.tools_used
    /\ tool_effectiveness = h.tool_effectiveness
    /\ last_was_reasoning = h.last_was_reasoning
    /\ last_was_tool = h.last_was_tool
    /\ shown_tools = h.shown_tools
    /\ tool_use_map = h.tool_use_map
    /\ tool_results = h.tool_results
    /\ suppress_parent_output = h.suppress_parent_output
    /\ step_limit_reached = h.step_limit_reached
    /\ stop_tool_used = h.stop_tool_used
    /\ report_generated = h.report_generated
    /\ files = h.files
    /\ op = h.op
    /\ out = h.out
    /\ raised = h.raised
    /\ g_counted = h.g_counted
    /\ g_rendered = h.g_rendered
    /\ g_via = h.g_via
    /\ g_invalid = h.g_invalid
    /\ g_retrievals = h.g_retrievals
    /\ g_oracle_calls = h.g_oracle_calls
    /\ g_evidence = h.g_evidence
    /\ g_env = h.g_env
    /\ main = h.main
    /\ g_kwargs = h.g_kwargs
    /\ g_text = h.g_text
    /\ apg = h.apg

\* ------------------------------------------------------------- events
\* sequences over S of length at most n
SeqsUpTo(S, n) == UNION {[1..m -> S] : m \in 0..n}

\* the invocation ids the runtime assigns
Ids == {Word("t1"), Word("t2"), Word("t3")}

\* (name, input) of the invocations delivered: valid ones and invalid ones
\* (blank required field, empty mapping, input not a mapping)
ShellLs == <<Word("shell"), PyDict([command |-> Word("ls")])>>
MemStore == <<Word("mem0_memory"), PyDict([action |-> Word("store"), content |-> Word("note")])>>
StopDone == <<Word("stop"), PyDict([reason |-> Word("done")])>>
ShellBlank == <<Word("shell"), PyDict([command |-> PyStr(<<" ">>)])>>
NmapEmpty == <<Word("nmap"), EmptyDict>>
NmapPartial == <<Word("nmap"), PyStr(<<"{">>)>>
InvalidPayloads == {ShellBlank, NmapEmpty, NmapPartial}

ToolUse(id, p) == PyDict([toolUseId |-> id, name |-> p[1], input |-> p[2]])
ToolUsesOf(ids, payloads) == {ToolUse(id, p) : id \in ids, p \in payloads}

Outcome(id, st) == PyDict([toolUseId |-> id, status |-> st])
OutcomeNoStatus(id) == PyDict([toolUseId |-> id])
ToolResultsOf(ids, statuses) == {Outcome(id, st) : id \in ids, st \in statuses}

TextBlock(text) == PyDict([type |-> Word("text"), text |-> text])
UseBlock(tu) == PyDict([toolUse |-> tu])
ResultBlock(tr) == PyDict([toolResult |-> tr])

DataEvent(text) == PyDict([data |-> text])
MessageEvent(content) ==
    PyDict([message |-> PyDict([role |-> Word("assistant"), content |-> PyList(content)])])
ToolUseEvent(tool) == PyDict([current_tool_use |-> tool])
ToolResultEvent(tr) == PyDict([toolResult |-> tr])
LifecycleEvent(k) == PyDict((k :> PyNone))

\* the records of the evidence store
Finding(memory) == PyDict([memory |-> memory, metadata |-> PyDict([category |-> Word("finding")])])
FindingNoMemory == PyDict([metadata |-> PyDict([category |-> Word("finding")])])
PlanRecord(memory) == PyDict([memory |-> memory, metadata |-> PyDict([category |-> Word("plan")])])
PlanJson(tok) == PyStr(<<"{", "\"version\"", ":", tok, "}">>)

Listing(mems) == PyDict([results |-> PyList(mems)])
StoreOk(mems) == [client |-> "ok", output |-> Listing(mems)]
StoreAbsent == [client |-> "absent", output |-> PyNone]
StoreRaises == [client |-> "raises", output |-> PyNone]

\* target=session.init_description
Target == Word("http://target")
EnvAt(store, agent, fs, now) ==
    [store |-> store, agent |-> agent, fs |-> fs, now |-> now,
     target |-> Target, objective |-> EmptyStr]
Env(store, agent, fs) == EnvAt(store, agent, fs, "20250101_120000")

\* ------------------------------------------------------------ actions
TotalOutcomes(h) ==
    LET RECURSIVE Sum(_)
        Sum(D) == IF D = {} THEN 0
                  ELSE LET n == CHOOSE x \in D : TRUE
                       IN h.tool_effectiveness[n].success + h.tool_effectiveness[n].error
                          + Sum(D \ {n})
    IN Sum(DOMAIN h.tool_effectiveness)

\* the bounds of the model: buffered text and matched outcomes
Bounded(h) ==
    /\ Len(h.current_reasoning_buffer) <= MaxBuffer
    /\ TotalOutcomes(h) <= MaxOutcomes

\* one call handler(**kwargs)
Handle(kwargs) ==
    \E new \in {Call(Self, kwargs)} : Bounded(new) /\ Store(new)

\* one call handler.generate_final_report(...)
Report(env) == \E new \in {GenerateFinalReportCall(Self, env)} : Store(new)

Init == \E limit \in 1..MaxLimit : Constructed(NewHandler(limit))

\* --- the whole processor: every event kind and the report
CoreIds == {Word("t1"), Word("t2")}
CoreUses == ToolUsesOf(CoreIds, {ShellLs, NmapPartial})
CoreResults == ToolResultsOf(CoreIds, {Word("success")})
CoreTexts == {PyStr(<<"a", "\n">>), PyStr(<<"a">>)}
CoreContents ==
    {<<TextBlock(PyStr(<<"a", "\n">>))>>}
        \cup {<<UseBlock(tu)>> : tu \in ToolUsesOf(CoreIds, {ShellLs})}
        \cup {<<ResultBlock(tr)>> : tr \in CoreResults}
CoreEnvs ==
    {Env(StoreAbsent, "ok", "ok"), Env(StoreOk(<<Finding(Word("sqli"))>>), "raises", "ok")}

HandleData == \E text \in CoreTexts : Handle(DataEvent(text))
HandleMessage == \E content \in CoreContents : Handle(MessageEvent(content))
HandleToolUse == \E tool \in CoreUses : Handle(ToolUseEvent(tool))
HandleToolResult == \E tr \in CoreResults : Handle(ToolResultEvent(tr))
HandleLifecycle == \E k \in {"complete"} : Handle(LifecycleEvent(k))
GenerateFinalReport == \E env \in CoreEnvs : Report(env)

Next ==
    \/ HandleData
    \/ HandleMessage
    \/ HandleToolUse
    \/ HandleToolResult
    \/ HandleLifecycle
    \/ GenerateFinalReport

Spec == Init /\ [][Next]_vars

\* --- invocations through both channels, valid and invalid (among them a
\* stop without arguments)
AllUses ==
    ToolUsesOf(Ids, {ShellLs, StopDone, <<Word("stop"), EmptyDict>>} \cup InvalidPayloads)
UseContents ==
    {<<UseBlock(tu)>> : tu \in AllUses}
        \cup {<<UseBlock(a), UseBlock(b)>> : a \in ToolUsesOf(Ids, {ShellLs}),
                                              b \in ToolUsesOf(Ids, {StopDone, NmapEmpty})}

StreamInvocation == \E tool \in AllUses : Handle(ToolUseEvent(tool))
CompositeInvocations == \E content \in UseContents : Handle(MessageEvent(content))

SpecInvocations == Init /\ [][StreamInvocation \/ CompositeInvocations]_vars

\* --- outcomes of recorded invocations, through both channels
OutcomeIds == {Word("t1"), Word("t2")}
\* t1 is an invocation of shell, t2 one of mem0_memory
OutcomeUses == {ToolUse(Word("t1"), ShellLs), ToolUse(Word("t2"), MemStore)}
Statuses == {Word("success"), Word("error"), Word("Success")}
OutcomeResults ==
    ToolResultsOf(OutcomeIds, Statuses) \cup {OutcomeNoStatus(id) : id \in OutcomeIds}
OutcomeContents ==
    {<<ResultBlock(tr)>> : tr \in OutcomeResults}
        \cup {<<ResultBlock(a), ResultBlock(b)>> :
                  a \in ToolResultsOf(OutcomeIds, {Word("success")}),
                  b \in ToolResultsOf(OutcomeIds, {Word("success"), Word("error")})}
        \cup {<<ResultBlock(tr), UseBlock(tu)>> :
                  tr \in ToolResultsOf(OutcomeIds, {Word("success")}), tu \in OutcomeUses}

AnnounceInvocation == \E tool \in OutcomeUses : Handle(ToolUseEvent(tool))
StandaloneOutcome == \E tr \in OutcomeResults : Handle(ToolResultEvent(tr))
CompositeOutcomes == \E content \in OutcomeContents : Handle(MessageEvent(content))

SpecOutcomes ==
    Init /\ [][AnnounceInvocation \/ StandaloneOutcome \/ CompositeOutcomes]_vars

\* --- the final report: evidence stores, oracles, filesystems and clocks
ReportRecords == {Finding(Word("sqli")), Finding(PyNone), PlanRecord(PlanJson("1"))}
\* more findings of one category than a group of the fallback report shows
ManyFindings == [i \in 1..(MaxGroupItems + 1) |-> Finding(Word("sqli"))]
ReportStores ==
    {StoreAbsent, StoreRaises, StoreOk(ManyFindings), StoreOk(<<FindingNoMemory>>)}
        \cup {StoreOk(mems) : mems \in SeqsUpTo(ReportRecords, MaxRecords)}
\* every store and oracle with a working filesystem, and some of them with
\* a failing one
ReportEnvs ==
    {Env(store, agent, "ok") : store \in ReportStores, agent \in {"none", "ok", "raises"}}
        \cup {Env(store, agent, fs) :
                  store \in {StoreAbsent, StoreOk(<<Finding(Word("sqli"))>>),
                             StoreOk(<<Finding(PyNone)>>)},
                  agent \in {"ok", "raises"}, fs \in {"mkdir_fails", "open_fails"}}
\* calls made one second later, which would name another file
LaterEnvs ==
    {EnvAt(store, "ok", "ok", "20250101_120001") :
        store \in {StoreAbsent, StoreOk(<<Finding(Word("sqli"))>>)}}

\* what happened before the report: a memory store with its outcome, a stop
ReportEvents ==
    {ToolUseEvent(ToolUse(Word("t1"), StopDone)),
     MessageEvent(<<UseBlock(ToolUse(Word("t2"), MemStore)),
                    ResultBlock(Outcome(Word("t2"), Word("success")))>>)}
ReportInvocation == \E kwargs \in ReportEvents : Handle(kwargs)
ReportCall == \E env \in ReportEnvs \cup LaterEnvs : Report(env)

SpecReport == Init /\ [][ReportInvocation \/ ReportCall]_vars

\* --- the plan records behind the synthesis
MaxPlans == 2
\* contents of plan records: versions 1 and 2, a str version, no version, a
\* JSON str, an undecodable text, no text at all
PlanContents ==
    {PlanJson("1"), PlanJson("2"), PlanJson("\"v1\""),
     PyStr(<<"{", "}">>), PyStr(<<"\"version\"">>), PyStr(<<"{">>), PyNone}
PlanRecordsOf(contents) == [i \in 1..Len(contents) |-> PlanRecord(contents[i])]
PlanStores ==
    {StoreOk(<<Finding(Word("sqli"))>> \o PlanRecordsOf(contents)) :
        contents \in SeqsUpTo(PlanContents, MaxPlans)}

SynthesizeWithPlans ==
    \E env \in {Env(store, "ok", "ok") : store \in PlanStores} : Report(env)

SpecPlans == Init /\ [][SynthesizeWithPlans]_vars

\* --- the step budget: runs of counted invocations under many limits
MaxBudget == 30
\* max_steps when the caller gives none
DefaultMaxSteps == 100

\* the handler is constructed with any limit an int argument can give: none
\* of the code requires it to be positive
InitBudget ==
    \E limit \in ((-1)..MaxBudget) \cup {DefaultMaxSteps} : Constructed(NewHandler(limit))

\* the runtime announces the invocations one after the other, each with a
\* fresh id
CountedInvocation ==
    Handle(ToolUseEvent(ToolUse(Word(ToString(Cardinality(shown_tools) + 1)), ShellLs)))

SpecBudget == InitBudget /\ [][CountedInvocation]_vars

\* --- orchestrator.main: the run that owns the handler. "main" holds its
\* position (pc), whether it has a session, an agent and a callback_handler,
\* how often it took its critical-error path (crashes), how often it called
\* generate_final_report (reports) and whether it saved the session; the
\* handler fields are those of the handler create_agent constructs. History
\* of the loop: "productive" says that every agent call that returned so far
\* had counted a step, "turns" is the number of these calls and "mark" the
\* step counter when the current call began.

\* lines 58-66: no session ends the run, a session leads into the try block
MainStart ==
    /\ main.pc = "start"
    /\ \E session \in BOOLEAN :
           Store([Self EXCEPT !.op = "main",
                              !.main.session = session,
                              !.main.pc = IF session THEN "create" ELSE "finished"])

\* lines 87-96 and 141-147: auto_setup and create_agent. "type_error": the
\* keyword session_output_dir of the call (lines 90-95) is not a parameter of
\* create_agent (agent.py, lines 284-289); "raises": auto_setup, the memory
\* system or the model constructor raise; "created": the call returns the
\* agent and its handler. Every exception is printed as a critical error.
MainCreate ==
    /\ main.pc = "create"
    /\ \E outcome \in {"type_error", "raises", "created"} :
           Store([Self EXCEPT !.op = "main",
                              !.main.agent = (outcome = "created"),
                              !.main.handler = (outcome = "created"),
                              !.main.crashes = IF outcome = "created" THEN @ ELSE @ + 1,
                              !.main.pc = IF outcome = "created" THEN "turn" ELSE "finally"])

\* lines 108-112 with 141-147: during agent(current_message) the runtime
\* hands an event to the handler; what the handler raises leaves agent(...)
\* and is caught by "except Exception"
AgentEvent ==
    /\ main.pc = "turn"
    /\ \E kwargs \in {ToolUseEvent(tool) : tool \in ToolUsesOf(Ids, {ShellLs, StopDone})} :
           \E new \in {Call(Self, kwargs)} :
               /\ Bounded(new)
               /\ \E after \in {IF new.raised
                                 THEN [new EXCEPT !.main.interrupted = TRUE,
                                                  !.main.crashes = @ + 1,
                                                  !.main.pc = "finally"]
                                 ELSE new} : Store(after)

\* lines 114-139: agent(...) returned; the mission is complete or the
\* handler says stop (both leave the loop), or another turn follows
AgentReturns ==
    /\ main.pc = "turn"
    /\ \E is_complete \in BOOLEAN :
           Store([Self EXCEPT !.op = "main",
                              !.main.pc = IF is_complete \/ should_stop(Self)
                                          THEN "finally" ELSE "turn",
                              !.main.productive = @ /\ steps > main.mark,
                              !.main.turns = IF main.productive /\ steps > main.mark
                                             THEN @ + 1 ELSE @,
                              !.main.mark = steps])

\* lines 110-112 with 141-147: agent(...) raised something else
AgentRaises ==
    /\ main.pc = "turn"
    /\ Store([Self EXCEPT !.op = "main", !.main.crashes = @ + 1, !.main.pc = "finally"])

\* lines 148-159: the report, when there are an agent and a handler, then
\* save_session; an exception of the report ends the block before the save
MainFinally ==
    /\ main.pc = "finally"
    /\ IF main.agent /\ main.handler
       THEN \E env \in CoreEnvs :
                \E new \in {GenerateFinalReportCall(Self, env)} :
                    \E after \in {[new EXCEPT !.main.reports = @ + 1,
                                              !.main.saved = ~new.raised,
                                              !.main.pc = "finished"]} : Store(after)
       ELSE Store([Self EXCEPT !.op = "main", !.main.saved = TRUE, !.main.pc = "finished"])

SpecMain ==
    Init /\ [][MainStart \/ MainCreate \/ AgentEvent \/ AgentReturns \/ AgentRaises
                   \/ MainFinally]_vars

\* main is sequential code: a call of agent(...) that is made returns or
\* raises, and the statements after the loop are executed
SpecMainFair ==
    /\ SpecMain
    /\ WF_vars(MainStart) /\ WF_vars(MainCreate)
    /\ WF_vars(AgentReturns \/ AgentRaises) /\ WF_vars(MainFinally)

\* --- the adaptive payload generator: runs of run() under every small
\* max_refinements, with the oracle's suggestions, the executor's responses
\* and the oracle's verdicts chosen freely
Suggestions ==
    {<<OpenTag, c[1], CloseTag>> : c \in {<<"id">>, <<"ls">>}}
        \cup {<<OpenTag, "ls", " ", "-a", CloseTag>>,
              <<"try", " ", OpenTag, " ", "id", "\n", CloseTag, "id", CloseTag>>,
              <<"id">>,
              <<CloseTag, "id", OpenTag>>}
Verdicts == {<<"Y", "E", "S">>, <<"n", "o">>, <<"N", "o", ",", " ", "y", "e", "s">>, <<"y", "e">>}

InitGenerator ==
    \E initial_command \in {<<"id">>, <<"ls">>, <<"ls", " ", "-a">>}, max_refinements \in 0..MaxRefinements :
        Constructed([NewHandler(1) EXCEPT
            !.apg = AdaptivePayloadGenerator(initial_command, <<"denied">>, max_refinements)])

\* generator.run(), to the loop
GeneratorRun ==
    /\ apg.pc = "created"
    /\ \E g \in {RunEnter(apg)} : Store([Self EXCEPT !.apg = g])

\* one iteration of the loop of run()
GeneratorRefine ==
    /\ apg.pc = "loop"
    /\ \E g \in {RunIteration(apg, llm_response, response, success_check) :
                    llm_response \in Suggestions, response \in {<<"denied">>, <<"timeout">>},
                    success_check \in Verdicts} :
           Store([Self EXCEPT !.apg = g])

SpecGenerator == InitGenerator /\ [][GeneratorRun \/ GeneratorRefine]_vars

\* --- observed deliveries: the call, with the event kept in g_kwargs and the
\* reasoning text kept in g_text: a call that shows an invocation (or meets
\* the limit) has flushed the buffer and closed the block, a call that
\* handles a text fragment adds it to the stream and its prints to rendered
Deliver(events) ==
    \E kwargs \in events :
        \E new \in {Call(Self, kwargs)} :
            LET text == IF Has(kwargs, "data") /\ IsStr(kwargs.d["data"])
                        THEN kwargs.d["data"].s ELSE <<>>
            IN /\ Bounded(new)
               /\ Len(g_text.stream \o text) <= MaxStream
               /\ \E noted \in {[new EXCEPT
                      !.g_kwargs = kwargs,
                      !.g_text =
                          IF \E i \in 1..Len(new.out) : new.out[i].k \in {"step", "limit"}
                          THEN [stream |-> <<>>, rendered |-> <<>>]
                          ELSE IF Refuses(Self) THEN @
                          ELSE [stream |-> @.stream \o text,
                                rendered |-> @.rendered \o SelectSeq(new.out,
                                    LAMBDA e : e.k \in {"open", "line"})]]} : Store(noted)

\* --- events of unexpected shape, among outcomes and announcements
MalformedEvents ==
    {DataEvent(PyNone),
     PyDict([message |-> Word("done")]),
     PyDict([message |-> PyDict([role |-> Word("assistant"), content |-> PyNone])]),
     MessageEvent(<<Word("text"), PyNone>>),
     MessageEvent(<<TextBlock(PyNone)>>),
     MessageEvent(<<UseBlock(PyNone)>>),
     MessageEvent(<<ResultBlock(PyNone)>>),
     ToolUseEvent(PyNone),
     ToolResultEvent(PyNone),
     ToolUseEvent(PyDict([name |-> ShellLs[1], input |-> ShellLs[2]])),
     ToolResultEvent(PyDict([status |-> Word("success")]))}

SpecMalformed ==
    Init /\ [][Deliver(MalformedEvents) \/ AnnounceInvocation \/ StandaloneOutcome]_vars

\* --- the arguments an invocation may carry, by tool
ValidityEvents ==
    LET str == {Word("ls"), PyStr(<<" ">>), EmptyStr}
        values == str \cup {PyList(<<Word("ls")>>), PyList(<<>>), PyList(<<EmptyStr, PyStr(<<" ">>)>>),
                            PyNone, PyInt(1)}
        any == {EmptyDict, PyStr(<<"{">>), PyDict([target |-> Word("ls")])}
        commands == {PyDict([command |-> v]) : v \in values}
        paths == {PyDict([path |-> v]) : v \in str}
        payloads ==
            {<<Word("shell"), input>> : input \in any \cup commands}
                \cup {<<Word("mem0_memory"), input>> : input \in
                         any \cup {PyDict([action |-> a]) :
                                      a \in {Word("store"), Word("retrieve"), Word("search"),
                                             Word("list"), Word("delete"), Word("get"),
                                             Word("history"), Word("purge")}}
                             \cup {PyDict([action |-> Word("store"), content |-> v]) : v \in values}
                             \cup {PyDict([action |-> a, query |-> v]) :
                                      a \in {Word("retrieve"), Word("search")}, v \in str}}
                \cup {<<Word("file_write"), input>> : input \in
                         any \cup paths
                             \cup {PyDict([path |-> Word("ls"), content |-> v]) : v \in str}}
                \cup {<<Word("editor"), input>> : input \in
                         any \cup {PyDict([command |-> Word("create")])}
                             \cup {PyDict([command |-> Word("create"), path |-> v]) : v \in str}}
                \cup {<<Word("load_tool"), input>> : input \in any \cup paths}
                \cup {<<Word("nmap"), input>> : input \in any \cup paths}
    IN {ToolUseEvent(ToolUse(Word("t1"), p)) : p \in payloads}

SpecValidity == Init /\ [][Deliver(ValidityEvents)]_vars

\* --- reasoning text in fragments (words, blanks, line ends, a carriage
\* return) between invocations
TextEvents ==
    {DataEvent(PyStr(text)) :
        text \in {<<"a">>, <<"b", "\n">>, <<"\n">>, <<" ">>, <<"\r", "a", "\n", "b">>}}
        \cup {ToolUseEvent(tool) : tool \in ToolUsesOf(Ids, {ShellLs})}

SpecText == Init /\ [][Deliver(TextEvents)]_vars

\* --- events of every kind, alone and with parts of other kinds
MixedEvents ==
    LET text == DataEvent(PyStr(<<"a", "\n">>))
        message == MessageEvent(<<UseBlock(ToolUse(Word("t1"), ShellLs))>>)
        empty == MessageEvent(<<>>)
        word == PyDict([message |-> Word("done")])
        announcement == ToolUseEvent(ToolUse(Word("t2"), ShellLs))
        outcome == ToolResultEvent(Outcome(Word("t1"), Word("success")))
        lifecycle == {LifecycleEvent(k) : k \in {"start", "complete", "force_stop"}}
        single == {text, message, empty, word, announcement, outcome} \cup lifecycle
    IN single \cup {PyDict(a.d @@ b.d) : a \in single, b \in single}

SpecEvents == Init /\ [][Deliver(MixedEvents)]_vars

\* --- invocations and their outcomes in one run: t1 (a shell command, a
\* blank one, a stop) and t2 (a memory store, a memory listing) announced,
\* outcomes alone, and composite messages that hold an outcome before an
\* invocation or a text after one
MatchingEvents ==
    LET MemList == <<Word("mem0_memory"), PyDict([action |-> Word("list")])>>
        uses == ToolUsesOf({Word("t1")}, {ShellLs, ShellBlank, StopDone})
                    \cup ToolUsesOf({Word("t2")}, {MemStore, MemList})
        done == ToolResultsOf({Word("t1"), Word("t2")}, {Word("success")})
    IN {ToolUseEvent(tu) : tu \in uses}
           \cup {ToolResultEvent(tr) : tr \in done}
           \cup {MessageEvent(<<ResultBlock(tr)>>) : tr \in done}
           \cup {MessageEvent(<<ResultBlock(tr), UseBlock(tu)>>) :
                     tr \in done, tu \in {ToolUse(Word("t1"), ShellLs), ToolUse(Word("t2"), MemStore)}}
           \cup {MessageEvent(<<UseBlock(ToolUse(Word("t1"), ShellLs)),
                                TextBlock(PyStr(<<"a">>))>>)}

SpecMatching == Init /\ [][Deliver(MatchingEvents)]_vars

\* --- listings of the evidence store with records of every shape: findings,
\* a plan, another category, no metadata, a record that is not a mapping,
\* metadata that is None
PartitionStores ==
    LET records == {Finding(Word("sqli")), Finding(Word("xss")), PlanRecord(PlanJson("1")),
                    PyDict([memory |-> Word("note"),
                            metadata |-> PyDict([category |-> Word("note")])]),
                    PyDict([memory |-> Word("note")]),
                    Word("note"),
                    PyDict([memory |-> Word("note"), metadata |-> PyNone])}
    IN {StoreOk(mems) : mems \in SeqsUpTo(records, MaxRecords)}

SpecPartition ==
    Init /\ [][\E env \in {Env(store, "raises", "ok") : store \in PartitionStores} :
                   Report(env)]_vars

\* ------------------------------------------------------------ claims
BothChannels == {"message", "stream"}
RemainingSteps == get_remaining_steps(Self)

\* C1: an invocation id that was delivered with valid arguments both inside
\* a composite message and as a streaming announcement (any order, any
\* number of times) has been rendered exactly once and counted as exactly
\* one step.
C1_DedupAcrossChannels ==
    \A id \in DOMAIN g_via :
        g_via[id] = BothChannels => At(g_rendered, id) = 1 /\ At(g_counted, id) = 1

C1_Witness ==
    \E id \in DOMAIN g_via :
        g_via[id] = BothChannels /\ At(g_rendered, id) = 1 /\ steps = 2

\* what the interrupt is: the flag set, StopIteration raised, the step not
\* counted and the invocation not rendered
Interrupted ==
    /\ step_limit_reached' /\ raised'
    /\ steps' = steps /\ g_counted' = g_counted /\ g_rendered' = g_rendered
    /\ \A i \in 1..Len(out') : out'[i].k # "step"

\* the call examined a valid invocation whose id was not shown
DeliveredNewValid ==
    \E id \in DOMAIN g_via' :
        id \notin shown_tools /\ g_via'[id] # (IF id \in DOMAIN g_via THEN g_via[id] ELSE {})

\* C2: once max_steps invocations have been counted, the call that delivers
\* the next valid new invocation (through either channel) sets
\* step_limit_reached and raises, without counting or rendering it; and
\* steps <= max_steps in every state.
C2_StepLimitInterrupt ==
    /\ [](steps <= max_steps)
    /\ [][(steps = max_steps /\ ~step_limit_reached /\ DeliveredNewValid) => Interrupted]_vars

C2_Witness == step_limit_reached /\ raised /\ steps = max_steps /\ max_steps = 2

\* C3: once step_limit_reached is set, every later handler call (whatever
\* the event) returns normally, prints nothing and changes neither the step
\* counter, the shown ids, the recorded invocations and results, the
\* effectiveness counters, the memory-write count nor the text buffer.
C3_NoOpAfterLimit ==
    [][(step_limit_reached /\ op' = "handle") =>
          /\ out' = <<>> /\ ~raised'
          /\ UNCHANGED <<steps, shown_tools, tool_use_map, tool_results, tool_effectiveness,
                         memory_operations, current_reasoning_buffer, tools_used,
                         stop_tool_used, step_limit_reached>>]_vars

C3_Witness ==
    /\ step_limit_reached /\ op = "handle" /\ ~raised
    /\ TotalOutcomes(Self) > 0

\* C4: get_remaining_steps() never increases from one call to the next, and
\* it is 0 in the state in which step_limit_reached becomes true.
C4_RemainingSteps ==
    /\ [][RemainingSteps' <= RemainingSteps]_vars
    /\ [][(~step_limit_reached /\ step_limit_reached') => RemainingSteps' = 0]_vars

C4_Witness == step_limit_reached /\ raised /\ RemainingSteps = 0 /\ max_steps = 2

\* C5: an id delivered only with invalid arguments (through either channel)
\* is not counted, not rendered, not marked shown and not recorded; once the
\* same id is delivered with valid arguments it is recorded, rendered and
\* counted exactly once (unless that delivery is the one the step limit
\* interrupts, which counts and renders nothing).
C5_InvalidNotCounted ==
    \A id \in g_invalid :
        IF id \in DOMAIN g_via
        THEN \/ /\ At(g_counted, id) = 1 /\ At(g_rendered, id) = 1
                /\ id \in shown_tools /\ id \in DOMAIN tool_use_map
             \/ step_limit_reached /\ At(g_counted, id) = 0 /\ At(g_rendered, id) = 0
        ELSE /\ At(g_counted, id) = 0 /\ At(g_rendered, id) = 0
             /\ id \notin shown_tools /\ id \notin DOMAIN tool_use_map

C5_Witness ==
    \E id \in g_invalid :
        id \in DOMAIN g_via /\ At(g_counted, id) = 1 /\ At(g_rendered, id) = 1

\* C6 (as stated): should_stop() is true exactly when step_limit_reached or
\* stop_tool_used is set.
C6_ShouldStopIffFlags == should_stop(Self) <=> (step_limit_reached \/ stop_tool_used)

\* C6 (amended): should_stop() is true exactly when the step counter has
\* reached max_steps or stop_tool_used is set; step_limit_reached implies it,
\* but it is already true once the last permitted step has been counted.
C6_ShouldStopAmended ==
    /\ should_stop(Self) <=> (steps = max_steps \/ stop_tool_used)
    /\ step_limit_reached => should_stop(Self)

C6_Witness == should_stop(Self) /\ ~step_limit_reached /\ ~stop_tool_used

\* C7 (as stated): at most one outcome is counted per recorded invocation, so
\* the sum of all success and error counters never exceeds the number of
\* recorded invocations.
C7_OneOutcomePerInvocation == TotalOutcomes(Self) <= Cardinality(DOMAIN tool_use_map)

\* the outcomes the call matched to a recorded invocation of tool name: the
\* results it displayed, with a status that is "success" (or is not)
Matched(name, success) ==
    Cardinality({i \in 1..Len(out') :
        /\ out'[i].k = "result"
        /\ Get(tool_use_map'[out'[i].id], "name", Word("unknown")) = name
        /\ (out'[i].status = Word("success")) = success})
CountOf(eff, name, field) == IF name \in DOMAIN eff THEN eff[name][field] ELSE 0

\* C8: in every call, each outcome matched to a recorded invocation adds 1
\* to exactly one counter of that invocation's tool: success when the status
\* is exactly "success", error for any other or a missing status; the
\* counters of every other tool are unchanged.
C8_OutcomeCounters ==
    [][\A name \in DOMAIN tool_effectiveness' \cup DOMAIN tool_effectiveness :
          /\ CountOf(tool_effectiveness', name, "success")
                 = CountOf(tool_effectiveness, name, "success") + Matched(name, TRUE)
          /\ CountOf(tool_effectiveness', name, "error")
                 = CountOf(tool_effectiveness, name, "error") + Matched(name, FALSE)]_vars

C8_Witness ==
    /\ Word("shell") \in DOMAIN tool_effectiveness
    /\ Word("mem0_memory") \in DOMAIN tool_effectiveness
    /\ tool_effectiveness[Word("shell")] = [success |-> 0, error |-> 1]
    /\ tool_effectiveness[Word("mem0_memory")] = [success |-> 1, error |-> 0]
    /\ \E i \in 1..Len(out) : out[i] = ResultEv(Word("t1"), Word("Success"))

\* C9: generate_final_report is idempotent: a call made after a first call
\* retrieves no evidence, asks no oracle, prints nothing, raises nothing and
\* writes no file; over any number of calls the evidence is retrieved once,
\* the oracle asked at most once and at most one report file exists (the one
\* the first call saved).
C9_ReportIdempotent ==
    /\ [](g_retrievals <= 1 /\ g_oracle_calls <= 1 /\ Cardinality(DOMAIN files) <= 1)
    /\ [][(report_generated /\ op' = "report") =>
             /\ out' = <<>> /\ ~raised'
             /\ UNCHANGED <<files, g_retrievals, g_oracle_calls, report_generated,
                            steps, memory_operations, tool_effectiveness>>]_vars

C9_Witness ==
    /\ report_generated /\ op = "report" /\ out = <<>>
    /\ g_retrievals = 1 /\ g_oracle_calls = 1 /\ Cardinality(DOMAIN files) = 1

\* the last report call took the fallback path (the oracle was unavailable
\* or raised, with findings)
FallbackEntered == op = "report" /\ \E i \in 1..Len(out) : out[i].k = "report_error"

\* C10 (as stated): when the oracle raises and there are findings,
\* generate_final_report returns normally whatever the findings hold, and the
\* file it writes holds a preview of every finding, by category.
C10_FallbackTotal ==
    FallbackEntered =>
        /\ ~raised
        /\ \A i \in 1..Len(out) :
               out[i].k = "saved" =>
                   /\ files[out[i].name].body.kind = "fallback"
                   /\ \A cat \in DOMAIN files[out[i].name].body.groups :
                          files[out[i].name].body.groups[cat].more = 0

\* the decoded plans that are mappings with an integer version, in order
RECURSIVE IntVersioned(_)
IntVersioned(plans) ==
    IF plans = <<>> THEN <<>>
    ELSE LET content == Get(Head(plans), "content", PyNone)
             decoded == IF IsStr(content) THEN JsonLoads(content.s) ELSE [ok |-> FALSE, v |-> PyNone]
             keep == /\ decoded.ok /\ IsDict(decoded.v) /\ Has(decoded.v, "version")
                     /\ IsInt(decoded.v.d["version"])
         IN (IF keep THEN <<decoded.v>> ELSE <<>>) \o IntVersioned(Tail(plans))

\* the plan of maximum version among them, or the "no plan" sentinel
MaxVersionPlan(plans) ==
    LET kept == IntVersioned(plans)
    IN IF kept = <<>> THEN NoPlanStr
       ELSE PlanStr(kept[CHOOSE i \in 1..Len(kept) :
                             /\ \A j \in 1..Len(kept) : kept[j].d["version"].n <= kept[i].d["version"].n
                             /\ \A j \in 1..(i - 1) : kept[j].d["version"].n < kept[i].d["version"].n])

\* C11 (as stated): the final plan put before the oracle is the plan of
\* maximum version among the plan records that decode to a mapping with an
\* integer version; malformed records are left out and never make the result
\* an error; with no such record it is the "no plan recorded" sentinel.
C11_FinalPlanSelection ==
    \A name \in DOMAIN files :
        files[name].body.kind = "llm" =>
            files[name].body.prompt.final_plan = MaxVersionPlan(g_evidence.plans)

\* the state right after the call that generated the report
Reported == op = "report" /\ g_retrievals = 1 /\ out # <<>>
Rendered(kind) == \E i \in 1..Len(out) : out[i].k = kind

\* the call produced a report body: there were no findings, or the oracle
\* answered, or every finding has a content the fallback can slice
BodyProduced ==
    \/ g_evidence.findings = <<>>
    \/ g_env.agent = "ok"
    \/ \A i \in 1..Len(g_evidence.findings) : Sliceable(g_evidence.findings[i].d["content"])

\* C12: when creating the evidence directory or opening the report file
\* fails, generate_final_report returns normally, prints a warning, leaves
\* report_generated true and writes nothing.
C12_SaveFailureCaught ==
    (Reported /\ g_env.fs # "ok" /\ BodyProduced) =>
        /\ ~raised
        /\ report_generated
        /\ Rendered("warning") /\ ~Rendered("saved")
        /\ files = <<>>

C12_Witness ==
    /\ Reported /\ g_env.fs = "mkdir_fails" /\ g_oracle_calls = 1
    /\ Rendered("warning") /\ ~raised /\ report_generated

\* the report file the call saved has a body of this kind
SavedBody(kind) ==
    \E i \in 1..Len(out) :
        out[i].k = "saved" /\ out[i].name \in DOMAIN files /\ files[out[i].name].body.kind = kind

\* C13: when the evidence store has no client, or its listing raises,
\* generate_final_report raises nothing and goes on with no findings and no
\* plans: the oracle is not asked and the no-evidence report is what is
\* shown and (the filesystem permitting) saved.
C13_StoreFailureIsNoEvidence ==
    (Reported /\ g_env.store.client # "ok") =>
        /\ ~raised
        /\ g_evidence = [findings |-> <<>>, plans |-> <<>>]
        /\ g_oracle_calls = 0
        /\ Rendered("no_evidence")
        /\ g_env.fs = "ok" => SavedBody("no_evidence")

C13_Witness ==
    /\ Reported /\ g_env.store.client = "raises" /\ g_env.agent = "ok"
    /\ SavedBody("no_evidence") /\ ~raised

\* C14 (as stated): in one generate_final_report call the oracle is asked at
\* most once; when it fails, or none is usable, the call raises nothing and
\* the fallback report is the body that is persisted.
C14_OracleFailureFallsBack ==
    (Reported /\ g_evidence.findings # <<>> /\ g_env.agent # "ok") =>
        /\ g_oracle_calls <= 1
        /\ ~raised
        /\ g_env.fs = "ok" => SavedBody("fallback")

\* the body of the no-evidence report for the run as it is
MinimalReport ==
    [kind |-> "no_evidence", steps |-> steps, max_steps |-> max_steps,
     memory_operations |-> memory_operations, plan_versions |-> Len(g_evidence.plans)]

\* C15: when no findings were retrieved, however many plans were, the oracle
\* is not asked, and the report shown and (the filesystem permitting) saved
\* is the minimal one: steps/max_steps, the memory-write count and the
\* number of plan versions.
C15_NoFindingsNoOracle ==
    (Reported /\ g_evidence.findings = <<>>) =>
        /\ g_oracle_calls = 0 /\ ~raised
        /\ Rendered("no_evidence") /\ ~Rendered("analyzing")
        /\ g_env.fs = "ok" =>
               \E i \in 1..Len(out) :
                   out[i].k = "saved" /\ files[out[i].name].body = MinimalReport

C15_Witness ==
    /\ Reported /\ g_evidence.findings = <<>> /\ Len(g_evidence.plans) = 2
    /\ g_env.agent = "ok" /\ SavedBody("no_evidence")
    /\ steps = 2 /\ memory_operations = 1

\* the level that belongs to a number of remaining steps
LevelOf(remaining) ==
    CASE remaining > 20 -> "ABUNDANT"
      [] remaining > 10 /\ remaining <= 20 -> "CONSTRAINED"
      [] remaining > 5 /\ remaining <= 10 -> "CRITICAL"
      [] remaining <= 5 -> "EMERGENCY"
UrgencyLevel == get_budget_urgency_level(Self)

\* C16: for every limit and step count, get_budget_urgency_level() depends
\* on remaining = max(0, max_steps - steps) only: ABUNDANT above 20,
\* CONSTRAINED in 11..20, CRITICAL in 6..10, EMERGENCY up to 5.
C16_UrgencyByRemaining ==
    /\ RemainingSteps = (IF max_steps - steps > 0 THEN max_steps - steps ELSE 0)
    /\ UrgencyLevel = LevelOf(RemainingSteps)

C16_Witness ==
    /\ max_steps = MaxBudget /\ max_steps - steps = 20 /\ steps > 0
    /\ UrgencyLevel = "CONSTRAINED"

\* C17 (as stated): with max_steps = 100 and steps 75, 85, 93, 97 the level
\* is CONSTRAINED, CRITICAL, CRITICAL, EMERGENCY.
C17_UrgencyExample ==
    max_steps = DefaultMaxSteps =>
        /\ steps = 75 => UrgencyLevel = "CONSTRAINED"
        /\ steps = 85 => UrgencyLevel = "CRITICAL"
        /\ steps = 93 => UrgencyLevel = "CRITICAL"
        /\ steps = 97 => UrgencyLevel = "EMERGENCY"

\* C17 (amended): with max_steps = 100 and steps 75, 85, 93, 97 (25, 15, 7
\* and 3 steps remaining) the level is ABUNDANT, CONSTRAINED, CRITICAL,
\* EMERGENCY.
C17_UrgencyExampleAmended ==
    max_steps = DefaultMaxSteps =>
        /\ steps = 75 => UrgencyLevel = "ABUNDANT"
        /\ steps = 85 => UrgencyLevel = "CONSTRAINED"
        /\ steps = 93 => UrgencyLevel = "CRITICAL"
        /\ steps = 97 => UrgencyLevel = "EMERGENCY"

C17_Witness == max_steps = DefaultMaxSteps /\ steps = 97 /\ UrgencyLevel = "EMERGENCY"

C19_ReportOncePerRun == (main.pc = "finished" /\ main.session) => main.reports = 1

\* C20 (as stated): the only thing a handler call raises is the budget
\* interrupt: an event of unexpected shape is ignored.
C20_OnlyTheInterruptIsRaised ==
    (op = "handle" /\ raised) => (step_limit_reached /\ Rendered("limit"))

\* the call counted an invocation of the stop tool as a step (it was new,
\* had valid arguments, and the budget was not spent)
StopCounted ==
    \E id \in DOMAIN g_counted' :
        /\ At(g_counted', id) = At(g_counted, id) + 1
        /\ steps' > steps
        /\ id \in DOMAIN tool_use_map'
        /\ Get(tool_use_map'[id], "name", EmptyStr) = Word("stop")
        /\ IsValidToolUse(Word("stop"), Get(tool_use_map'[id], "input", EmptyDict))

\* C21: stop_tool_used is false in a new handler and becomes true exactly in
\* the call that records and counts a valid new invocation of the stop tool;
\* no other call (an invalid or repeated stop, a stop that meets the spent
\* budget, another tool) changes it, and it is never cleared.
C21_StopRequested ==
    /\ [](op = "init" => ~stop_tool_used)
    /\ [][stop_tool_used' <=> (stop_tool_used \/ StopCounted)]_vars

C21_Witness ==
    /\ stop_tool_used /\ steps = 2 /\ ~step_limit_reached
    /\ g_invalid # {} /\ tools_used[2] = Word("stop")

\* the invocation the observed call delivered, when its id was not shown
\* before and the processor was active; Accepted: the call marked it shown
Announced == g_kwargs'.d["current_tool_use"]
Examined ==
    /\ op' = "handle" /\ ~step_limit_reached
    /\ Has(g_kwargs', "current_tool_use")
    /\ Announced.d["toolUseId"] \notin shown_tools
Accepted == Announced.d["toolUseId"] \in shown_tools'

NonEmpty(v) == (IsStr(v) /\ v.s # <<>>) \/ (IsList(v) /\ v.l # <<>>)
\* a str that is not blank, or a true value of another type
NonBlank(v) ==
    IF IsStr(v) THEN \E i \in 1..Len(v.s) : ~IsSpace(v.s[i])
    ELSE IF IsList(v) THEN v.l # <<>>
    ELSE IF IsInt(v) THEN v.n # 0
    ELSE IF IsDict(v) THEN DOMAIN v.d # {}
    ELSE FALSE
\* a list of str with an item that is not blank
SomeItemNotBlank(v) == IsList(v) /\ \E i \in 1..Len(v.l) : NonBlank(v.l[i])
Field(input, k) == IF IsDict(input) /\ k \in DOMAIN input.d THEN input.d[k] ELSE PyNone
ListStyle == {Word("list"), Word("delete"), Word("get"), Word("history")}

\* the reference as stated
StatedValid(name, input) ==
    IF name = Word("shell") THEN NonEmpty(Field(input, "command"))
    ELSE IF name = Word("mem0_memory") THEN
        \/ Field(input, "action") = Word("store") /\ NonEmpty(Field(input, "content"))
        \/ /\ Field(input, "action") \in {Word("search"), Word("retrieve")}
           /\ NonEmpty(Field(input, "query"))
        \/ Field(input, "action") \in ListStyle
    ELSE IsDict(input) /\ DOMAIN input.d # {}

\* the reference as amended
ExactValid(name, input) ==
    /\ IsDict(input) /\ DOMAIN input.d # {}
    /\ CASE name = Word("shell") ->
                IF IsList(Field(input, "command")) THEN SomeItemNotBlank(Field(input, "command"))
                ELSE NonBlank(Field(input, "command"))
         [] name = Word("mem0_memory") ->
                \/ Field(input, "action") = Word("store") /\ NonBlank(Field(input, "content"))
                \/ Field(input, "action") = Word("retrieve") /\ NonBlank(Field(input, "query"))
                \/ Field(input, "action") \in ListStyle
         [] name = Word("file_write") ->
                NonEmpty(Field(input, "path")) /\ NonEmpty(Field(input, "content"))
         [] name = Word("editor") ->
                NonEmpty(Field(input, "command")) /\ NonEmpty(Field(input, "path"))
         [] name = Word("load_tool") -> NonBlank(Field(input, "path"))
         [] OTHER -> TRUE

\* C22 (as stated): an invocation is accepted exactly when: shell, its
\* command is a non-empty str or a non-empty list; mem0_memory, store with a
\* non-empty content, search/retrieve with a non-empty query, or a list-style
\* action; any other tool, a non-empty argument mapping.
C22_ValidityAsStated ==
    [][Examined => (Accepted <=> StatedValid(Announced.d["name"], Announced.d["input"]))]_vars

\* C22 (amended): an invocation is accepted exactly when its arguments are a
\* non-empty mapping and: shell, the command is a str that is not blank, a
\* list of str with an item that is not blank, or a true value of another
\* type; mem0_memory, store with a content (retrieve with a query) that is a
\* str that is not blank or a true value of another type, or list, delete,
\* get, history, and no other action; file_write, path and content are
\* non-empty; editor, command and path are non-empty; load_tool, the path is
\* not blank; any other tool, nothing more.
C22_ValidityAmended ==
    [][Examined => (Accepted <=> ExactValid(Announced.d["name"], Announced.d["input"]))]_vars

C22_Witness ==
    /\ op = "handle" /\ shown_tools = {} /\ g_invalid = {Word("t1")}
    /\ Has(g_kwargs, "current_tool_use")
    /\ g_kwargs.d["current_tool_use"].d["name"] = Word("file_write")
    /\ g_kwargs.d["current_tool_use"].d["input"] = PyDict([path |-> Word("ls")])

\* C23 (as stated): every report file is evidence/<name>, and <name> holds
\* the operation id of the handler and the timestamp of the synthesis.
C23_ReportFileName ==
    \A name \in DOMAIN files :
        /\ name.dir = "evidence"
        /\ name.timestamp = g_env.now
        /\ \E part \in {name.stem, name.timestamp} : part = operation_id.s[1]

\* C24: a call of generate_final_report, whichever path it takes (already
\* generated, no evidence, oracle answer, fallback, failed write, exception
\* of the fallback), leaves the step counter, the step limit, the
\* effectiveness counters, the memory-write count, the created tools, the
\* action summaries, step_limit_reached and stop_tool_used as they were.
C24_ReportFrame ==
    [][op' = "report" =>
          UNCHANGED <<steps, max_steps, tool_effectiveness, memory_operations, created_tools,
                      tools_used, step_limit_reached, stop_tool_used, operation_id>>]_vars

C24_Witness ==
    /\ FallbackEntered /\ SavedBody("fallback")
    /\ steps = 2 /\ memory_operations = 1 /\ Len(tools_used) = 2
    /\ Word("mem0_memory") \in DOMAIN tool_effectiveness

\* C25: from one call to the next (handler calls and report calls alike) the
\* step counter, every success and error counter and the memory-write count
\* do not decrease, no tool loses its counters, no id leaves shown_tools, and
\* step_limit_reached, stop_tool_used and report_generated stay true once
\* they are.
C25_NeverReset ==
    [][/\ steps' >= steps
       /\ memory_operations' >= memory_operations
       /\ \A name \in DOMAIN tool_effectiveness :
              /\ name \in DOMAIN tool_effectiveness'
              /\ tool_effectiveness'[name].success >= tool_effectiveness[name].success
              /\ tool_effectiveness'[name].error >= tool_effectiveness[name].error
       /\ shown_tools \subseteq shown_tools'
       /\ step_limit_reached => step_limit_reached'
       /\ stop_tool_used => stop_tool_used'
       /\ report_generated => report_generated']_vars

C25_Witness ==
    /\ op = "handle" /\ ~raised /\ out = <<>>
    /\ report_generated /\ stop_tool_used /\ files # <<>>
    /\ steps = 2 /\ memory_operations = 1 /\ Cardinality(shown_tools) = 2
    /\ Word("mem0_memory") \in DOMAIN tool_effectiveness

\* the complete lines of a text (those ended by a line end), in order
RECURSIVE CompleteLines(_)
CompleteLines(s) ==
    IF \A i \in 1..Len(s) : s[i] # "\n" THEN <<>>
    ELSE LET i == CHOOSE k \in 1..Len(s) : s[k] = "\n" /\ \A j \in 1..(k - 1) : s[j] # "\n"
         IN <<SubSeq(s, 1, i - 1)>> \o CompleteLines(SubSeq(s, i + 1, Len(s)))
IsBlank(line) == \A i \in 1..Len(line) : IsSpace(line[i])
WithoutCR(s) == SelectSeq(s, LAMBDA c : c # "\r")
\* the lines among rendered events, as printed
LinesIn(evs) ==
    LET lines == SelectSeq(evs, LAMBDA e : e.k = "line")
    IN [i \in 1..Len(lines) |-> lines[i].text]

\* C26 (as stated): the lines rendered since the last flush are the complete
\* lines of the text delivered since then that are not blank, each once and
\* in order (without their leading blanks), and no call renders a blank line.
C26_LinesOnceNoBlank ==
    /\ LET expected == SelectSeq(CompleteLines(WithoutCR(g_text.stream)), LAMBDA l : ~IsBlank(l))
       IN LinesIn(g_text.rendered) = [i \in 1..Len(expected) |-> LStrip(expected[i])]
    /\ \A i \in 1..Len(out) : out[i].k = "line" => ~IsBlank(out[i].text)

\* the text delivered since the last flush, handled as one fragment by a
\* handler whose buffer is empty and whose block is closed
AsOneFragment == HandleTextBlock(NewHandler(max_steps), PyStr(g_text.stream))

\* C27: whatever the fragments the text came in since the last flush, what
\* was rendered (the header and the lines, in order) and what is left in the
\* buffer are what handling the whole text as one fragment gives.
C27_FragmentationIndependent ==
    ~step_limit_reached =>
        /\ g_text.rendered = AsOneFragment.out
        /\ current_reasoning_buffer = AsOneFragment.current_reasoning_buffer
        /\ reasoning_header_printed = AsOneFragment.reasoning_header_printed

C27_Witness ==
    /\ g_text.stream = <<"a", "b", "\n", "a">>
    /\ g_kwargs = DataEvent(PyStr(<<"a">>))
    /\ LinesIn(g_text.rendered) = <<(<<"a", "b">>)>>
    /\ current_reasoning_buffer = <<"a">>
    /\ steps = 1

\* the rendered events in order, from a block that is open or not: an
\* opener comes when no block is open, a line or a closer inside an open
\* block, an invocation or the limit notice when no block is open
RECURSIVE BlocksNest(_, _)
BlocksNest(evs, open) ==
    IF evs = <<>> THEN [ok |-> TRUE, open |-> open]
    ELSE LET k == Head(evs).k
         IN IF k = "open" THEN (IF open THEN [ok |-> FALSE, open |-> open]
                                ELSE BlocksNest(Tail(evs), TRUE))
            ELSE IF k = "close" THEN (IF open THEN BlocksNest(Tail(evs), FALSE)
                                      ELSE [ok |-> FALSE, open |-> open])
            ELSE IF k = "line" THEN (IF open THEN BlocksNest(Tail(evs), TRUE)
                                     ELSE [ok |-> FALSE, open |-> open])
            ELSE IF k \in {"step", "limit"} THEN (IF open THEN [ok |-> FALSE, open |-> open]
                                                  ELSE BlocksNest(Tail(evs), FALSE))
            ELSE BlocksNest(Tail(evs), open)

\* C28: no block is open at first, and in what each call renders, taken up
\* where the call before left it, openers and closers alternate (an opener
\* only when no block is open), every reasoning line is inside an open
\* block, and an invocation or the limit notice comes only after the open
\* block was closed; reasoning_header_printed says whether a block is open.
C28_BlocksAlternate ==
    /\ [](op = "init" => ~reasoning_header_printed)
    /\ [][op' = "handle" =>
             BlocksNest(out', reasoning_header_printed)
                 = [ok |-> TRUE, open |-> reasoning_header_printed']]_vars

C28_Witness ==
    /\ step_limit_reached /\ raised
    /\ \E i \in 1..Len(out) :
           /\ i + 3 = Len(out)
           /\ out[i].k = "open" /\ out[i + 1].k = "line"
           /\ out[i + 2].k = "close" /\ out[i + 3].k = "limit"

LifecycleKeys == {"init_event_loop", "start_event_loop", "start", "complete", "force_stop"}
\* the kind of an event: the first shape it has, in the order text fragment,
\* composite message (a message that is a mapping), streaming announcement,
\* standalone outcome, lifecycle
KindOf(kwargs) ==
    IF Has(kwargs, "data") THEN "text"
    ELSE IF Has(kwargs, "message") /\ IsDict(kwargs.d["message"]) THEN "message"
    ELSE IF Has(kwargs, "current_tool_use") THEN "announcement"
    ELSE IF Has(kwargs, "toolResult") THEN "outcome"
    ELSE IF DOMAIN kwargs.d \cap LifecycleKeys # {} THEN "lifecycle"
    ELSE "none"

\* C29: a lifecycle event reaches the parent renderer exactly when the limit
\* has not been reached and suppress_parent_output is not set; the flag is
\* set exactly by a call that processed a composite message to its end, and
\* is never cleared.
C29_LifecycleForwarding ==
    /\ [](op = "init" => ~suppress_parent_output)
    /\ [][(op' = "handle" /\ KindOf(g_kwargs') = "lifecycle") =>
             ((\E i \in 1..Len(out') : out'[i].k = "parent")
                  <=> (~step_limit_reached /\ ~suppress_parent_output))]_vars
    /\ [][suppress_parent_output' <=>
             \/ suppress_parent_output
             \/ /\ op' = "handle" /\ ~step_limit_reached /\ ~raised'
                /\ KindOf(g_kwargs') = "message"]_vars

C29_Witness ==
    /\ op = "handle" /\ KindOf(g_kwargs) = "lifecycle" /\ out = <<>>
    /\ suppress_parent_output /\ ~step_limit_reached /\ steps = 1

\* the part of an event that belongs to its kind
KindPart(kwargs) ==
    LET keys == CASE KindOf(kwargs) = "text" -> {"data"}
                  [] KindOf(kwargs) = "message" -> {"message"}
                  [] KindOf(kwargs) = "announcement" -> {"current_tool_use"}
                  [] KindOf(kwargs) = "outcome" -> {"toolResult"}
                  [] OTHER -> DOMAIN kwargs.d \cap LifecycleKeys
    IN PyDict([k \in keys |-> kwargs.d[k]])

\* C30: a call does to the handler, prints and raises what the same call
\* does with the part of the event that belongs to its kind alone: the
\* parts of lower-priority kinds change nothing.
C30_OneKindPerCall ==
    [][op' = "handle" =>
          Self' = [Call(Self, KindPart(g_kwargs')) EXCEPT !.g_kwargs = g_kwargs',
                                                          !.g_text = g_text']]_vars

C30_Witness ==
    /\ op = "handle" /\ KindOf(g_kwargs) = "message"
    /\ Has(g_kwargs, "current_tool_use")
    /\ steps = 1 /\ shown_tools = {Word("t1")} /\ suppress_parent_output
    /\ \A i \in 1..Len(out) : out[i].k # "parent"

\* the parts of an event: the blocks of its composite message, the outcomes
\* and the invocations it carries for the kind it is handled as
BlocksOf(kwargs) ==
    IF KindOf(kwargs) = "message" /\ IsList(Get(kwargs.d["message"], "content", PyNone))
    THEN kwargs.d["message"].d["content"].l ELSE <<>>
OutcomesOf(kwargs) ==
    IF KindOf(kwargs) = "outcome" THEN {kwargs.d["toolResult"]}
    ELSE {BlocksOf(kwargs)[i].d["toolResult"] :
            i \in {j \in 1..Len(BlocksOf(kwargs)) : Has(BlocksOf(kwargs)[j], "toolResult")}}
InvocationsOf(kwargs) ==
    IF KindOf(kwargs) = "announcement" THEN {kwargs.d["current_tool_use"]}
    ELSE {BlocksOf(kwargs)[i].d["toolUse"] :
            i \in {j \in 1..Len(BlocksOf(kwargs)) : Has(BlocksOf(kwargs)[j], "toolUse")}}
OnlyOutcomes(kwargs) ==
    /\ OutcomesOf(kwargs) # {}
    /\ \A i \in 1..Len(BlocksOf(kwargs)) : Has(BlocksOf(kwargs)[i], "toolResult")
IdOf(part) == Get(part, "toolUseId", EmptyStr)

\* C31: an outcome whose id was never validly recorded (unknown, or seen only
\* in invalid invocations) changes nothing: when no outcome of a call has a
\* recorded id, the effectiveness counters, the memory-write count and the
\* stored results are unchanged and no outcome is rendered; when the call
\* carries nothing but such outcomes, the step counter is unchanged too and
\* nothing at all is rendered.
C31_UnmatchedOutcomeDiscarded ==
    [][(/\ op' = "handle"
        /\ OutcomesOf(g_kwargs') # {}
        /\ \A tr \in OutcomesOf(g_kwargs') : IdOf(tr) \notin DOMAIN tool_use_map')
           => /\ tool_effectiveness' = tool_effectiveness
              /\ memory_operations' = memory_operations
              /\ tool_results' = tool_results
              /\ \A i \in 1..Len(out') : out'[i].k # "result"
              /\ OnlyOutcomes(g_kwargs') =>
                     /\ steps' = steps
                     /\ shown_tools' = shown_tools
                     /\ out' = <<>>]_vars

\* an outcome of t1 arrives in a composite message after t1 was delivered
\* with invalid arguments only, while t2 is recorded and has an outcome
C31_Witness ==
    /\ op = "handle" /\ ~step_limit_reached
    /\ KindOf(g_kwargs) = "message" /\ OnlyOutcomes(g_kwargs)
    /\ \A tr \in OutcomesOf(g_kwargs) : IdOf(tr) = Word("t1")
    /\ Word("t1") \in g_invalid /\ Word("t1") \notin DOMAIN tool_use_map
    /\ Word("t2") \in DOMAIN tool_use_map /\ TotalOutcomes(Self) = 1
    /\ out = <<>> /\ steps = 1

\* the pass that prints an output: reasoning text, then invocations (with
\* the closing of the reasoning block and the limit notice), then outcomes
PassRank(ev) ==
    IF ev.k \in {"open", "line"} THEN 1 ELSE IF ev.k = "result" THEN 3 ELSE 2
Reverse(seq) == [i \in 1..Len(seq) |-> seq[Len(seq) + 1 - i]]
Rendered_result(id) == \E i \in 1..Len(out) : out[i].k = "result" /\ out[i].id = id

\* C32: a composite message is processed in three passes, text blocks, then
\* invocation blocks, then outcome blocks: what the call prints is in that
\* order, the call does the same as for the content in reverse order when it
\* holds at most one block of a kind, every outcome block whose id is
\* recorded when the call returns was matched (an invocation of the same
\* message included), and when the invocation pass raises the interrupt no
\* outcome block of the message is counted, stored or rendered.
C32_ThreePasses ==
    [][(op' = "handle" /\ ~step_limit_reached /\ KindOf(g_kwargs') = "message") =>
          /\ \A i, j \in 1..Len(out') : i < j => PassRank(out'[i]) <= PassRank(out'[j])
          /\ Len(BlocksOf(g_kwargs')) <= 2 =>
                 Self' = [Call(Self, MessageEvent(Reverse(BlocksOf(g_kwargs'))))
                             EXCEPT !.g_kwargs = g_kwargs', !.g_text = g_text']
          /\ ~raised' =>
                 \A tr \in OutcomesOf(g_kwargs') :
                     IdOf(tr) \in DOMAIN tool_use_map' =>
                         /\ Rendered_result(IdOf(tr))'
                         /\ tool_results'[IdOf(tr)] = tr
          /\ raised' =>
                 /\ tool_effectiveness' = tool_effectiveness
                 /\ memory_operations' = memory_operations
                 /\ tool_results' = tool_results
                 /\ \A i \in 1..Len(out') : out'[i].k # "result"]_vars

\* a message whose outcome block stands before the invocation block of the
\* same id: the invocation is shown as step 1 and its outcome after it
C32_Witness ==
    /\ op = "handle" /\ KindOf(g_kwargs) = "message" /\ Len(BlocksOf(g_kwargs)) = 2
    /\ Has(BlocksOf(g_kwargs)[1], "toolResult") /\ Has(BlocksOf(g_kwargs)[2], "toolUse")
    /\ IdOf(BlocksOf(g_kwargs)[1].d["toolResult"]) = Word("t1")
    /\ Len(out) = 2 /\ out[1].k = "step" /\ out[1].id = Word("t1")
    /\ out[2].k = "result" /\ out[2].id = Word("t1")
    /\ g_counted = (Word("t1") :> 1) /\ TotalOutcomes(Self) = 1

\* the outcomes of an event that belong to a recorded memory store
StoreOutcomes(kwargs) ==
    LET stored(tr) == /\ IdOf(tr) \in DOMAIN tool_use_map'
                      /\ IsMemoryStore(tool_use_map'[IdOf(tr)])
    IN IF KindOf(kwargs) = "outcome"
       THEN IF stored(kwargs.d["toolResult"]) THEN 1 ELSE 0
       ELSE Cardinality({i \in 1..Len(BlocksOf(kwargs)) :
                /\ Has(BlocksOf(kwargs)[i], "toolResult")
                /\ stored(BlocksOf(kwargs)[i].d["toolResult"])})

\* C33: memory_operations grows by one for each matched outcome of a recorded
\* mem0_memory invocation whose action is store, through the composite
\* channel and through the standalone channel alike, and by nothing else.
C33_MemoryWritesCounted ==
    [][op' = "handle" =>
          memory_operations' = memory_operations +
              (IF step_limit_reached \/ raised' THEN 0 ELSE StoreOutcomes(g_kwargs'))]_vars

\* C34: the reasoning text received before a newly shown invocation is
\* rendered before it: a call that shows an invocation or meets the limit
\* first prints what the buffer held as a reasoning line (without its leading
\* blanks), prints no reasoning after the step or the notice, and leaves the
\* buffer empty and the block closed.
C34_FlushBeforeInvocation ==
    [][(op' = "handle" /\ \E i \in 1..Len(out') : out'[i].k \in {"step", "limit"}) =>
          LET n == CHOOSE i \in 1..Len(out') : out'[i].k \in {"step", "limit"}
              lines == {i \in 1..Len(out') : out'[i].k = "line"}
          IN /\ current_reasoning_buffer' = <<>>
             /\ ~reasoning_header_printed'
             /\ \A i \in 1..Len(out') : out'[i].k \in {"open", "line", "close"} => i < n
             /\ IF current_reasoning_buffer = <<>> THEN lines = {}
                ELSE \E i \in 1..(n - 1) :
                         /\ lines = {i}
                         /\ out'[i].text = LStrip(current_reasoning_buffer)]_vars

\* an invocation is announced after the partial line "a" was buffered: the
\* line is printed in a block of its own, the block is closed, then step 1
C34_Witness ==
    /\ op = "handle" /\ ~raised /\ steps = 1 /\ Len(out) = 4
    /\ SubSeq(out, 1, 3) = <<OpenEv, LineEv(<<"a">>), CloseEv>>
    /\ out[4].k = "step"
    /\ current_reasoning_buffer = <<>> /\ g_text.stream = <<>>

\* C35 (as stated): in every state the step counter is the number of ids in
\* the shown set, and the shown set is the key set of the recorded
\* invocations.
C35_StepsEqualShown ==
    /\ steps = Cardinality(shown_tools)
    /\ shown_tools = DOMAIN tool_use_map

\* C35 (amended): the shown set is the key set of the recorded invocations in
\* every state; the step counter is the number of shown ids until the limit
\* is met, and one less from then on: the invocation that meets the limit is
\* marked shown and recorded before the interrupt, and is not counted.
C35_StepsEqualShownAmended ==
    /\ shown_tools = DOMAIN tool_use_map
    /\ steps + (IF step_limit_reached THEN 1 ELSE 0) = Cardinality(shown_tools)

\* the third invocation met a limit of two
C35_Witness ==
    /\ step_limit_reached /\ raised /\ max_steps = 2 /\ steps = 2
    /\ shown_tools = Ids /\ DOMAIN tool_use_map = Ids

\* C36: over the calls of one processor the budget interrupt is raised at
\* most once, in exactly the call that turns step_limit_reached from false
\* to true: a call raises (after the limit notice) exactly when it sets the
\* flag, and the flag is never cleared.
C36_InterruptOnce ==
    /\ [][op' = "handle" =>
             /\ raised' <=> (~step_limit_reached /\ step_limit_reached')
             /\ raised' <=> (out' # <<>> /\ out'[Len(out')] = LimitEv)
             /\ \A i \in 1..(Len(out') - 1) : out'[i] # LimitEv]_vars
    /\ [][step_limit_reached => step_limit_reached']_vars

\* after the interrupt a valid invocation that is not the recorded one is
\* announced: the call returns without a second interrupt
C36_Witness ==
    /\ op = "handle" /\ step_limit_reached /\ ~raised /\ out = <<>>
    /\ KindOf(g_kwargs) = "announcement"
    /\ \A tu \in InvocationsOf(g_kwargs) :
           /\ tool_use_map[IdOf(tu)] # tu
           /\ IsValidToolUse(Get(tu, "name", EmptyStr), Get(tu, "input", EmptyDict))

\* C37: a recorded stop does not make the processor terminal: with
\* stop_tool_used set, a call does exactly what it would do with the flag
\* clear (it records, renders and counts valid new invocations, matches
\* outcomes, meets the limit), and a call is without effect only when
\* step_limit_reached is set.
C37_StopIsNotTerminal ==
    [][(op' = "handle" /\ stop_tool_used) =>
          /\ Self' = [Call([Self EXCEPT !.stop_tool_used = FALSE], g_kwargs')
                         EXCEPT !.stop_tool_used = TRUE,
                                !.g_kwargs = g_kwargs', !.g_text = g_text']
          /\ (~step_limit_reached /\ ~raised') =>
                 /\ \A tu \in InvocationsOf(g_kwargs') :
                        (/\ IdOf(tu) \notin shown_tools
                         /\ IsValidToolUse(Get(tu, "name", EmptyStr), Get(tu, "input", EmptyDict)))
                            => /\ steps' = steps + 1
                               /\ IdOf(tu) \in shown_tools'
                               /\ tool_use_map'[IdOf(tu)] = tu
                               /\ \E i \in 1..Len(out') :
                                      out'[i].k = "step" /\ out'[i].id = IdOf(tu)
                 /\ \A tr \in OutcomesOf(g_kwargs') :
                        IdOf(tr) \in DOMAIN tool_use_map' =>
                            /\ TotalOutcomes(Self)' > TotalOutcomes(Self)
                            /\ Rendered_result(IdOf(tr))']_vars

\* the stop was step 1; the memory store announced after it is step 2 and
\* its outcome, delivered last, is matched
C37_Witness ==
    /\ op = "handle" /\ stop_tool_used /\ ~step_limit_reached
    /\ tools_used = <<Word("stop"), Word("mem0_memory")>> /\ steps = 2
    /\ KindOf(g_kwargs) = "outcome" /\ Rendered_result(Word("t2"))
    /\ Word("mem0_memory") \in DOMAIN tool_effectiveness

\* the records of a listing that are mappings with a mapping as metadata and
\* the given category, as all_evidence stores them, in order
WellFormed(mem) == IsDict(mem) /\ IsDict(Get(mem, "metadata", EmptyDict))
PartOf(listing, category) ==
    LET kept == SelectSeq(listing, LAMBDA mem :
                    /\ WellFormed(mem)
                    /\ Get(Get(mem, "metadata", EmptyDict), "category", PyNone) = Word(category))
    IN [i \in 1..Len(kept) |->
           PyDict([content |-> Get(kept[i], "memory", Word("N/A")),
                   metadata |-> Get(kept[i], "metadata", EmptyDict)])]

\* C38 (as stated): the partition is per record: every well-formed record of
\* category finding (plan) of the listing is among the findings (plans),
\* records of other categories are dropped, and a malformed record (not a
\* mapping, or with metadata that is not a mapping) is skipped without
\* keeping the records after it from being partitioned.
C38_PartitionPerRecord ==
    (Reported /\ g_env.store.client = "ok") =>
        /\ g_evidence.findings = PartOf(g_env.store.output.d["results"].l, "finding")
        /\ g_evidence.plans = PartOf(g_env.store.output.d["results"].l, "plan")

\* C39: when every call of agent(...) in the loop of main returns without an
\* exception after the handler counted at least one step during it, the loop
\* is left after at most max_iterations (= max_steps) such calls, through the
\* completion test or should_stop, and main goes on to the report: as long
\* as the calls were productive there have been at most max_steps of them,
\* fewer while the loop is still running, and such a run ends, with exactly
\* one call of generate_final_report.
C39_LoopTerminates ==
    /\ [](main.productive => main.turns <= max_steps)
    /\ []((main.productive /\ main.pc = "turn") => main.turns < max_steps)
    /\ []((main.pc = "finished" /\ main.turns > 0) => main.reports = 1)
    /\ ([]main.productive) => <>(main.pc = "finished")

\* two productive calls under a limit of two, then the report
C39_Witness ==
    /\ main.pc = "finished" /\ main.productive /\ main.crashes = 0
    /\ max_steps = 2 /\ main.turns = 2 /\ steps = 2 /\ ~stop_tool_used
    /\ main.reports = 1 /\ report_generated

====
